---- MODULE Spec2Model ----
(***************************************************************************)
(* A state-machine model of the Lens. photography-portfolio backend        *)
(* (Express routes over Mongoose models): accounts and refresh tokens,     *)
(* portfolios and their default flag, photos and their moderation state,   *)
(* the admin user management and the upload quota.                         *)
(*                                                                         *)
(* Conventions                                                             *)
(*  - A collection is a function from the ids of its documents to records. *)
(*  - Strings the code converts or matches (usernames, e-mails, slugs) are *)
(*    tuples of one-character strings, so that toLowerCase, the slug       *)
(*    regular expression and string concatenation are computed.            *)
(*  - resp is the response of the last request handled.                    *)
(*  - The Mongoose behaviour the handlers rest on is modelled as Mongoose  *)
(*    6 implements it (the code awaits doc.populate() and calls            *)
(*    doc.remove(), which only that major version supports together):      *)
(*      * validation runs before the schema's own pre('save') hooks;       *)
(*      * doc.deleteOne(), Model.deleteMany(), Model.findByIdAndDelete()   *)
(*        and Model.insertMany() run no 'save' and no 'remove' hook;       *)
(*      * Model.findByIdAndUpdate() runs no 'save' hook;                   *)
(*      * toString() of a populated reference is the printed document,     *)
(*        not the hexadecimal id.                                          *)
(*      * save() of a document whose array path was assigned a new array   *)
(*        is conditioned on the version key __v and increments it.         *)
(*  - userSchema (src/src/models/User.js 5-127) declares neither `role`    *)
(*    nor `portfolios`; the routes read and write both.  The model follows *)
(*    the routes: role is a field of the user document, and the push onto  *)
(*    user.portfolios in POST /register is taken not to throw.             *)
(***************************************************************************)
EXTENDS Integers, Sequences, FiniteSets, TLC

(***************************************************************************)
(* Bounds of the model.                                                    *)
(***************************************************************************)
MaxUsers == 3
MaxPortfolios == 3
MaxPhotos == 2
MaxClock == 1
MaxTokens == 2
\* users in the specifications about portfolios and photos
MaxOwners == 2
\* photo ids and files of one request in the specification about the
\* upload quota
MaxQuotaIds == 62
MaxBatch == 2

UserIds == 1..MaxUsers
PortfolioIds == 1..MaxPortfolios
PhotoIds == 1..MaxPhotos

(***************************************************************************)
(* Strings.                                                                *)
(***************************************************************************)
LowerLetters ==
  {"a","b","c","d","e","f","g","h","i","j","k","l","m",
   "n","o","p","q","r","s","t","u","v","w","x","y","z"}

Digits == {"0","1","2","3","4","5","6","7","8","9"}

\* String.prototype.toLowerCase on one character (the upper-case letters the
\* model's inputs use).
LowerChar(c) ==
  CASE c = "A" -> "a"
    [] c = "N" -> "n"
    [] c = "B" -> "b"
    [] OTHER -> c

ToLowerCase(s) == [i \in 1..Len(s) |-> LowerChar(s[i])]

\* username: /^[a-zA-Z0-9_-]+$/ with 3 to 30 characters.
UsernameChars == LowerLetters \cup {"A","N","B"} \cup Digits \cup {"_","-"}

ValidUsername(s) ==
  /\ Len(s) >= 3
  /\ Len(s) <= 30
  /\ \A i \in 1..Len(s) : s[i] \in UsernameChars

\* slug: setter lowercase, then match /^[a-z0-9-]+$/.
SlugChars == LowerLetters \cup Digits \cup {"-"}

SlugSetter(s) == ToLowerCase(s)

ValidSlug(s) ==
  /\ Len(s) >= 1
  /\ \A i \in 1..Len(s) : s[i] \in SlugChars

\* normalizeEmail() of express-validator: the address in lower case.
NormalizeEmail(e) == ToLowerCase(e)

PhotosSuffix == <<"-","p","h","o","t","o","s">>
PortfolioSuffix == <<"-","p","o","r","t","f","o","l","i","o","-">>
CopySuffix == <<"-","c","o","p","y","-">>

\* `${username}-photos`
RegisterSlug(username) == username \o PhotosSuffix

(***************************************************************************)
(* Inputs of the requests.                                                 *)
(***************************************************************************)
Usernames == { <<"a","n","n">>, <<"A","n","n">>, <<"a","_","n">> }

Emails == { <<"a","@","x",".","i","o">>, <<"A","@","x",".","i","o">>, <<"n","@","x",".","i","o">> }

\* the usernames and the e-mail address of the registrations in the
\* specifications about portfolios and photos
OwnerNames == { <<"a","n","n">>, <<"a","_","n">> }

OwnerEmail == <<"n","@","x",".","i","o">>

SuperAdminUsername == <<"s","u","p","e","r","a","d","m","i","n">>
SuperAdminEmail == <<"a","d","m","i","n","@","l","e","n","s",".","c","o","m">>

Roles == {"user", "admin", "super_admin"}

VARIABLES
  users,        \* the User collection
  portfolios,   \* the Portfolio collection
  photos,       \* the Photo collection
  nextUser,     \* ids handed out so far, per collection
  nextPortfolio,
  nextPhoto,
  clock,        \* Date.now() in seconds
  resp,         \* the response of the last request
  issued,       \* history: refresh tokens returned to a client
  consumed,     \* history: refresh tokens a successful refresh was given
  removedUsers, \* history: ids of the user documents deleted
  bucket,       \* the keys of the objects in the R2 bucket
  nextFile,     \* the number of file ids (uuidv4) drawn so far, plus one
  inflight      \* the requests being handled step by step

vars == <<users, portfolios, photos, nextUser, nextPortfolio, nextPhoto,
          clock, resp, issued, consumed, removedUsers, bucket, nextFile, inflight>>

(***************************************************************************)
(* Documents.                                                              *)
(***************************************************************************)
\* userSchema, with the defaults of a document created by User.create.
\* version is the version key __v; it is counted in the refresh handled step
\* by step, the one place where a save() of the model depends on it.
NewUser(username, email, role, plan) ==
  [ username |-> username,
    email |-> ToLowerCase(email),
    role |-> role,
    isActive |-> TRUE,
    publicProfile |-> TRUE,
    plan |-> plan,
    totalPhotos |-> 0,
    refreshTokens |-> << >>,
    password |-> "bcrypt hash",
    version |-> 0 ]

\* portfolioSchema: the fields the handlers decide on.
NewPortfolio(user, slug, isPublic, isDefault) ==
  [ user |-> user,
    slug |-> SlugSetter(slug),
    isPublic |-> isPublic,
    isDefault |-> isDefault ]

\* photoSchema: isPublic as given by the handler, approvalStatus 'pending' and
\* isFeatured false by default.
NewPhoto(user, portfolio, isPublic) ==
  [ user |-> user,
    portfolio |-> portfolio,
    isPublic |-> isPublic,
    approvalStatus |-> "pending",
    isFeatured |-> FALSE,
    reviewedBy |-> 0,
    reviewedAt |-> -1,
    order |-> 0,
    publicId |-> [file |-> 0, thumb |-> FALSE] ]

Without(coll, id) == [x \in DOMAIN coll \ {id} |-> coll[x]]

PortfoliosOf(u) == {p \in DOMAIN portfolios : portfolios[p].user = u}
PhotosOf(u) == {f \in DOMAIN photos : photos[f].user = u}
PhotosIn(p) == {f \in DOMAIN photos : photos[f].portfolio = p}

\* protect: the token verifies, its user exists and is active.
Authenticated(u) == u \in DOMAIN users /\ users[u].isActive

(***************************************************************************)
(* JSON web tokens.  jwt.sign is a deterministic function of the payload   *)
(* and of iat, the time of signing in whole seconds.                       *)
(***************************************************************************)
\* userSchema.methods.generateRefreshToken: the token signed for { id }.
SignRefreshToken(uid, now) == [id |-> uid, iat |-> now]

\* this.refreshTokens.push({ token })
PushToken(tokens, t) == Append(tokens, t)

\* userSchema.methods.removeRefreshToken: filter(rt => rt.token !== token)
RemoveRefreshToken(tokens, t) == SelectSeq(tokens, LAMBDA x : x # t)

\* user.refreshTokens.some(rt => rt.token === refreshToken)
TokenExists(tokens, t) == \E i \in 1..Len(tokens) : tokens[i] = t

\* userSchema.methods.generateAuthToken: the access token, signed with
\* JWT_SECRET.  Of its payload only id is read back by anything; username,
\* email and subscription are left out.  iat is the second of signing.
GenerateAuthToken(uid, now) == [id |-> uid, iat |-> now, secret |-> "JWT_SECRET"]

(***************************************************************************)
(* The initial state: the database after the server's initializeDatabase   *)
(* created the first super admin.                                          *)
(***************************************************************************)
Init ==
  /\ users = (1 :> NewUser(SuperAdminUsername, SuperAdminEmail, "super_admin", "pro"))
  /\ portfolios = << >>
  /\ photos = << >>
  /\ nextUser = 2
  /\ nextPortfolio = 1
  /\ nextPhoto = 1
  /\ clock = 0
  /\ resp = [op |-> "none", status |-> 0]
  /\ issued = {}
  /\ consumed = {}
  /\ bucket = {}
  /\ nextFile = 1
  /\ inflight = << >>
  /\ removedUsers = {}


(***************************************************************************)
(* Portfolio documents: the pre('save') hook and the unique slug index.    *)
(***************************************************************************)
\* portfolioSchema.pre('save'), the default-clearing hook:
\* updateMany({ user, _id: { $ne: this._id } }, { isDefault: false }).
ClearSiblingDefaults(ports, user, id) ==
  [p \in DOMAIN ports |->
     IF ports[p].user = user /\ p # id
       THEN [ports[p] EXCEPT !.isDefault = FALSE]
       ELSE ports[p]]

SlugTaken(ports, slug) == \E p \in DOMAIN ports : ports[p].slug = SlugSetter(slug)

\* Portfolio.create with a slug: the validators (slug must match the slug
\* expression), then the hook, then the insert, which the unique index on
\* slug refuses for a slug already stored.
CanCreatePortfolio(ports, slug) ==
  /\ ValidSlug(SlugSetter(slug))
  /\ ~SlugTaken(ports, slug)

CreatedPortfolios(ports, id, doc) ==
  (IF doc.isDefault THEN ClearSiblingDefaults(ports, doc.user, id) ELSE ports)
    @@ (id :> doc)

\* The status of the response to an error handed to next(): the error
\* handler maps it to a client or a server error.
ErrorStatuses == {400, 500}

(***************************************************************************)
(* POST /api/auth/register                                                 *)
(***************************************************************************)
\* User.findOne({ $or: [{ email }, { username }] })
ExistingUsers(username, email) ==
  {u \in DOMAIN users : users[u].email = email \/ users[u].username = username}

Register(username, rawEmail) ==
  LET email == NormalizeEmail(rawEmail)
      found == ExistingUsers(username, email)
      uid == nextUser
      pid == nextPortfolio
      slug == RegisterSlug(username)
      user == NewUser(username, email, "user", "free")
      rt == SignRefreshToken(uid, clock)
  IN
  IF ~ValidUsername(username)
    THEN \* validateUserRegistration
      /\ resp' = [op |-> "register", status |-> 400, message |-> "Validation failed",
                  fresh |-> FALSE, user |-> 0]
      /\ UNCHANGED <<users, portfolios, photos, nextUser, nextPortfolio, nextPhoto,
                     clock, bucket, nextFile, inflight, issued, consumed, removedUsers>>
  ELSE IF found # {}
    THEN \E e \in found :
      /\ resp' = [op |-> "register", status |-> 400,
                  message |-> IF users[e].email = email
                                THEN "Email already exists"
                                ELSE "Username already exists",
                  fresh |-> FALSE, user |-> 0]
      /\ UNCHANGED <<users, portfolios, photos, nextUser, nextPortfolio, nextPhoto,
                     clock, bucket, nextFile, inflight, issued, consumed, removedUsers>>
  ELSE
    /\ nextUser <= MaxUsers
    /\ nextPortfolio <= MaxPortfolios
    /\ nextUser' = nextUser + 1
    /\ IF CanCreatePortfolio(portfolios, slug)
         THEN \* the user, the default portfolio, the tokens: 201
           /\ users' = users @@ (uid :> [user EXCEPT !.refreshTokens = PushToken(@, rt)])
           /\ portfolios' = CreatedPortfolios(portfolios, pid,
                                              NewPortfolio(uid, slug, TRUE, TRUE))
           /\ nextPortfolio' = nextPortfolio + 1
           /\ issued' = issued \cup {rt}
           /\ resp' = [op |-> "register", status |-> 201,
                       message |-> "User registered successfully",
                       fresh |-> TRUE, user |-> uid]
         ELSE \* Portfolio.create throws after User.create: next(error)
           /\ users' = users @@ (uid :> user)
           /\ UNCHANGED <<portfolios, nextPortfolio, issued>>
           /\ \E st \in ErrorStatuses :
                resp' = [op |-> "register", status |-> st,
                         message |-> "error",
                         fresh |-> TRUE, user |-> uid]
    /\ UNCHANGED <<photos, nextPhoto, clock, bucket, nextFile, inflight, consumed, removedUsers>>

(***************************************************************************)
(* POST /api/auth/login                                                    *)
(***************************************************************************)
\* userSchema.statics.findByEmailOrUsername
FindByEmailOrUsername(identifier) ==
  {u \in DOMAIN users : \/ users[u].email = ToLowerCase(identifier)
                        \/ users[u].username = ToLowerCase(identifier)}

Login(identifier, passwordValid) ==
  LET found == FindByEmailOrUsername(identifier) IN
  /\ UNCHANGED <<portfolios, photos, nextUser, nextPortfolio, nextPhoto,
                 clock, bucket, nextFile, inflight, consumed, removedUsers>>
  /\ IF found = {}
       THEN /\ resp' = [op |-> "login", status |-> 401, user |-> 0]
            /\ UNCHANGED <<users, issued>>
       ELSE \E u \in found :
         IF ~users[u].isActive \/ ~passwordValid
           THEN /\ resp' = [op |-> "login", status |-> 401, user |-> 0]
                /\ UNCHANGED <<users, issued>>
           ELSE LET rt == SignRefreshToken(u, clock) IN
                /\ Len(users[u].refreshTokens) < MaxTokens
                /\ users' = [users EXCEPT ![u].refreshTokens = PushToken(@, rt)]
                /\ issued' = issued \cup {rt}
                /\ resp' = [op |-> "login", status |-> 200, user |-> u,
                            token |-> GenerateAuthToken(u, clock)]

(***************************************************************************)
(* POST /api/auth/logout                                                   *)
(***************************************************************************)
Logout(u, rt) ==
  /\ Authenticated(u)
  /\ users' = [users EXCEPT ![u].refreshTokens = RemoveRefreshToken(@, rt)]
  /\ resp' = [op |-> "logout", status |-> 200, user |-> u]
  /\ UNCHANGED <<portfolios, photos, nextUser, nextPortfolio, nextPhoto,
                 clock, bucket, nextFile, inflight, issued, consumed, removedUsers>>

(***************************************************************************)
(* POST /api/auth/refresh                                                  *)
(***************************************************************************)
\* The user's stored tokens after a successful refresh: generateRefreshToken
\* pushes the new token, removeRefreshToken filters the presented one out,
\* and the handler pushes the new token once more.
RotatedTokens(tokens, presented, new) ==
  PushToken(RemoveRefreshToken(PushToken(tokens, new), presented), new)

Refresh(rt) ==
  LET u == rt.id
      new == SignRefreshToken(u, clock)
  IN
  /\ UNCHANGED <<portfolios, photos, nextUser, nextPortfolio, nextPhoto,
                 clock, bucket, nextFile, inflight, removedUsers>>
  /\ IF u \notin DOMAIN users \/ ~TokenExists(users[u].refreshTokens, rt)
       THEN /\ resp' = [op |-> "refresh", status |-> 401, presented |-> rt,
                        reuse |-> rt \in consumed, new |-> rt]
            /\ UNCHANGED <<users, issued, consumed>>
       ELSE /\ Len(users[u].refreshTokens) <= MaxTokens
            /\ users' = [users EXCEPT
                           ![u].refreshTokens = RotatedTokens(@, rt, new)]
            /\ issued' = issued \cup {new}
            /\ consumed' = consumed \cup {rt}
            /\ resp' = [op |-> "refresh", status |-> 200, presented |-> rt,
                        reuse |-> rt \in consumed, new |-> new]

\* A second passes.
Tick ==
  /\ clock < MaxClock
  /\ clock' = clock + 1
  /\ UNCHANGED <<users, portfolios, photos, nextUser, nextPortfolio, nextPhoto,
                 resp, issued, consumed, removedUsers, bucket, nextFile, inflight>>

Identifiers == Usernames \cup {<<"a","@","x",".","i","o">>, <<"A","@","x",".","i","o">>}

NextAuth ==
  \/ \E n \in Usernames \cup {<<"a","n">>}, e \in Emails : Register(n, e)
  \/ \E i \in Identifiers, ok \in BOOLEAN : Login(i, ok)
  \/ \E u \in DOMAIN users, rt \in issued : Logout(u, rt)
  \/ \E rt \in issued : Refresh(rt)
  \/ Tick

SpecAuth == Init /\ [][NextAuth]_vars


\* C1: a refresh token is good for one refresh only: a POST /api/auth/refresh
\* that presents a token which an earlier refresh already exchanged is
\* answered 401.
C1_RefreshTokenSingleUse ==
  (resp.op = "refresh" /\ resp.reuse) => resp.status = 401

\* C10: a registration whose e-mail or username is in use is answered 400 with
\* the message naming a field that is in use, and creates no user and no
\* portfolio; a registration with an unused pair is answered 201 and the
\* new user owns exactly one portfolio, which is the default one.
C10_RegisterOutcome ==
  [][\A n \in Usernames, e \in Emails :
       Register(n, e) =>
         IF ExistingUsers(n, NormalizeEmail(e)) # {}
           THEN /\ resp'.status = 400
                /\ \/ /\ resp'.message = "Email already exists"
                      /\ \E u \in DOMAIN users : users[u].email = NormalizeEmail(e)
                   \/ /\ resp'.message = "Username already exists"
                      /\ \E u \in DOMAIN users : users[u].username = n
                /\ users' = users
                /\ portfolios' = portfolios
           ELSE /\ resp'.status = 201
                /\ resp'.user \in DOMAIN users'
                /\ LET owned == {p \in DOMAIN portfolios' :
                                   portfolios'[p].user = resp'.user}
                   IN /\ Cardinality(owned) = 1
                      /\ \A p \in owned : portfolios'[p].isDefault]_vars


(***************************************************************************)
(* DELETE /api/auth/me                                                     *)
(***************************************************************************)
\* user.deleteOne() removes the user document; the pre('remove') hook of
\* userSchema is not run for it, so portfolios and photos stay.
DeleteMe(u, passwordValid) ==
  /\ Authenticated(u)
  /\ IF ~passwordValid
       THEN /\ resp' = [op |-> "deleteMe", status |-> 400, user |-> u]
            /\ UNCHANGED <<users, removedUsers>>
       ELSE /\ users' = Without(users, u)
            /\ removedUsers' = removedUsers \cup {u}
            /\ resp' = [op |-> "deleteMe", status |-> 200, user |-> u]
  /\ UNCHANGED <<portfolios, photos, nextUser, nextPortfolio, nextPhoto,
                 clock, bucket, nextFile, inflight, issued, consumed>>

(***************************************************************************)
(* The admin routes on users (protect, then canManageAdmins or             *)
(* requireSuperAdmin).                                                     *)
(***************************************************************************)
\* canManageAdmins
CanManageAdmins(a) == users[a].role = "super_admin"

\* requireSuperAdmin (protect has already checked isActive)
RequireSuperAdmin(a) == users[a].role = "super_admin" /\ users[a].isActive

\* User.countDocuments({ role: 'super_admin' })
SuperAdminCount == Cardinality({u \in DOMAIN users : users[u].role = "super_admin"})

\* User.countDocuments({ role: 'super_admin', isActive: true })
ActiveSuperAdminCount ==
  Cardinality({u \in DOMAIN users :
                 users[u].role = "super_admin" /\ users[u].isActive})

AdminUnchanged ==
  UNCHANGED <<portfolios, nextPortfolio, nextPhoto, clock, bucket, nextFile, inflight, issued, consumed>>

\* DELETE /api/admin/users/:id
AdminDeleteUser(a, id) ==
  /\ Authenticated(a)
  /\ UNCHANGED <<nextUser>>
  /\ AdminUnchanged
  /\ IF ~RequireSuperAdmin(a)
       THEN /\ resp' = [op |-> "adminDeleteUser", status |-> 403, user |-> id]
            /\ UNCHANGED <<users, photos, removedUsers>>
     ELSE IF id \in DOMAIN users /\ users[id].role = "super_admin"
       THEN /\ resp' = [op |-> "adminDeleteUser", status |-> 403, user |-> id]
            /\ UNCHANGED <<users, photos, removedUsers>>
     ELSE \* Photo.deleteMany({ user: id }); User.findByIdAndDelete(id)
          /\ photos' = [f \in {x \in DOMAIN photos : photos[x].user # id} |-> photos[f]]
          /\ users' = Without(users, id)
          /\ removedUsers' = IF id \in DOMAIN users
                               THEN removedUsers \cup {id}
                               ELSE removedUsers
          /\ resp' = [op |-> "adminDeleteUser", status |-> 200, user |-> id]

\* POST /api/admin/users
CreateAdminUser(a, username, email, role) ==
  /\ Authenticated(a)
  /\ UNCHANGED <<photos, removedUsers>>
  /\ AdminUnchanged
  /\ IF ~CanManageAdmins(a)
       THEN /\ resp' = [op |-> "createAdminUser", status |-> 403, user |-> 0]
            /\ UNCHANGED <<users, nextUser>>
     ELSE IF ExistingUsers(username, ToLowerCase(email)) # {}
       THEN /\ resp' = [op |-> "createAdminUser", status |-> 400, user |-> 0]
            /\ UNCHANGED <<users, nextUser>>
     ELSE /\ nextUser <= MaxUsers
          /\ users' = users @@ (nextUser :> NewUser(username, email, role, "free"))
          /\ nextUser' = nextUser + 1
          /\ resp' = [op |-> "createAdminUser", status |-> 201, user |-> nextUser]

\* PUT /api/admin/users/:id/role
UpdateRole(a, id, role) ==
  /\ Authenticated(a)
  /\ UNCHANGED <<photos, removedUsers, nextUser>>
  /\ AdminUnchanged
  /\ IF ~CanManageAdmins(a)
       THEN /\ resp' = [op |-> "updateRole", status |-> 403, user |-> id]
            /\ UNCHANGED users
     ELSE IF role # "super_admin" /\ SuperAdminCount <= 1
       THEN /\ resp' = [op |-> "updateRole", status |-> 400, user |-> id,
                        message |-> "Cannot demote the last super admin"]
            /\ UNCHANGED users
     ELSE IF id \notin DOMAIN users
       THEN /\ resp' = [op |-> "updateRole", status |-> 404, user |-> id]
            /\ UNCHANGED users
     ELSE /\ users' = [users EXCEPT ![id].role = role]
          /\ resp' = [op |-> "updateRole", status |-> 200, user |-> id]

\* PUT /api/admin/users/:id/status
UpdateStatus(a, id, isActive) ==
  /\ Authenticated(a)
  /\ UNCHANGED <<photos, removedUsers, nextUser>>
  /\ AdminUnchanged
  /\ IF ~CanManageAdmins(a)
       THEN /\ resp' = [op |-> "updateStatus", status |-> 403, user |-> id]
            /\ UNCHANGED users
     ELSE IF /\ ~isActive
             /\ id \in DOMAIN users
             /\ users[id].role = "super_admin"
             /\ ActiveSuperAdminCount <= 1
       THEN /\ resp' = [op |-> "updateStatus", status |-> 400, user |-> id]
            /\ UNCHANGED users
     ELSE IF id \notin DOMAIN users
       THEN /\ resp' = [op |-> "updateStatus", status |-> 404, user |-> id]
            /\ UNCHANGED users
     ELSE /\ users' = [users EXCEPT ![id].isActive = isActive]
          /\ resp' = [op |-> "updateStatus", status |-> 200, user |-> id]

NextAdmin ==
  \/ \E n \in Usernames, e \in Emails, r \in {"admin", "super_admin"} :
       \E a \in DOMAIN users : CreateAdminUser(a, n, e, r)
  \/ \E a \in DOMAIN users, id \in UserIds, r \in Roles : UpdateRole(a, id, r)
  \/ \E a \in DOMAIN users, id \in UserIds, b \in BOOLEAN : UpdateStatus(a, id, b)
  \/ \E a \in DOMAIN users, id \in UserIds : AdminDeleteUser(a, id)
  \/ \E u \in DOMAIN users, ok \in BOOLEAN : DeleteMe(u, ok)

SpecAdmin == Init /\ [][NextAdmin]_vars

\* C6: at least one user with role super_admin exists in every state (the
\* initial state has one), whatever role updates, status changes, admin user
\* deletions and DELETE /api/auth/me are made.
C6_SuperAdminRemains ==
  \E u \in DOMAIN users : users[u].role = "super_admin"


(***************************************************************************)
(* The portfolio routes (all behind protect).                              *)
(***************************************************************************)
\* planLimits = { free: 3, pro: Infinity } of POST / and POST /:id/duplicate
PortfolioLimit == 3

PortfolioLimitReached(u) ==
  users[u].plan = "free" /\ Cardinality(PortfoliosOf(u)) >= PortfolioLimit

\* Date.now() as a template literal prints it (the clock has one digit).
DecimalDigits == <<"0","1","2","3","4","5","6","7","8","9">>

NowString == <<DecimalDigits[(clock % 10) + 1]>>

\* `${req.user.username}-portfolio-${Date.now()}`
DefaultSlug(username) == username \o PortfolioSuffix \o NowString

\* `${originalPortfolio.slug}-copy-${Date.now()}`
CopySlug(slug) == slug \o CopySuffix \o NowString

\* The fields of a request body that findByIdAndUpdate writes: a function
\* from the names of the fields sent to their values (bodies of one field).
PortfolioBodies ==
  UNION {[{k} -> BOOLEAN] : k \in {"isDefault", "isPublic"}}

\* findByIdAndUpdate(id, req.body): $set of the fields sent, no 'save' hook.
ApplyBody(doc, body) ==
  [k \in DOMAIN doc |-> IF k \in DOMAIN body THEN body[k] ELSE doc[k]]

\* portfolioSchema.methods.canAccess on a portfolio whose user is not populated
PortfolioCanAccess(p, u) == portfolios[p].isPublic \/ portfolios[p].user = u

PortfolioUnchanged ==
  UNCHANGED <<users, nextUser, clock, bucket, nextFile, inflight, issued, consumed, removedUsers>>

\* POST /api/portfolios: Portfolio.create is given no slug, slug is required
\* and validation precedes the pre('save') hook that would derive one.
CreatePortfolio(u) ==
  /\ Authenticated(u)
  /\ PortfolioUnchanged
  /\ UNCHANGED <<portfolios, photos, nextPortfolio, nextPhoto>>
  /\ IF PortfolioLimitReached(u)
       THEN resp' = [op |-> "createPortfolio", status |-> 403, user |-> u, portfolio |-> 0]
       ELSE \E st \in ErrorStatuses :
              resp' = [op |-> "createPortfolio", status |-> st, user |-> u, portfolio |-> 0]

\* PUT /api/portfolios/:id
UpdatePortfolio(u, id, body) ==
  /\ Authenticated(u)
  /\ PortfolioUnchanged
  /\ UNCHANGED <<photos, nextPortfolio, nextPhoto>>
  /\ IF id \notin DOMAIN portfolios
       THEN /\ resp' = [op |-> "updatePortfolio", status |-> 404, user |-> u, portfolio |-> id]
            /\ UNCHANGED portfolios
     ELSE IF portfolios[id].user # u
       THEN /\ resp' = [op |-> "updatePortfolio", status |-> 403, user |-> u, portfolio |-> id]
            /\ UNCHANGED portfolios
     ELSE /\ portfolios' = [portfolios EXCEPT ![id] = ApplyBody(@, body)]
          /\ resp' = [op |-> "updatePortfolio", status |-> 200, user |-> u, portfolio |-> id]

\* PUT /api/portfolios/:id/default: portfolio.isDefault = true; save().  The
\* hook clears the siblings when isModified('isDefault'), that is when the
\* stored value was false.
SetDefault(u, id) ==
  /\ Authenticated(u)
  /\ PortfolioUnchanged
  /\ UNCHANGED <<photos, nextPortfolio, nextPhoto>>
  /\ IF id \notin DOMAIN portfolios
       THEN /\ resp' = [op |-> "setDefault", status |-> 404, user |-> u, portfolio |-> id]
            /\ UNCHANGED portfolios
     ELSE IF portfolios[id].user # u
       THEN /\ resp' = [op |-> "setDefault", status |-> 403, user |-> u, portfolio |-> id]
            /\ UNCHANGED portfolios
     ELSE /\ portfolios' =
               IF ~portfolios[id].isDefault
                 THEN [ClearSiblingDefaults(portfolios, u, id) EXCEPT ![id].isDefault = TRUE]
                 ELSE portfolios
          /\ resp' = [op |-> "setDefault", status |-> 200, user |-> u, portfolio |-> id]

\* Portfolio.findOne({ user }).sort('createdAt'): the oldest one.
FirstPortfolioOf(u) ==
  CHOOSE p \in PortfoliosOf(u) : \A q \in PortfoliosOf(u) : p <= q

\* GET /api/portfolios/default
GetDefault(u) ==
  LET defaults == {p \in PortfoliosOf(u) : portfolios[p].isDefault}
      slug == DefaultSlug(users[u].username)
  IN
  /\ Authenticated(u)
  /\ PortfolioUnchanged
  /\ UNCHANGED <<photos, nextPhoto>>
  /\ IF defaults # {}
       THEN \E p \in defaults :
              /\ resp' = [op |-> "getDefault", status |-> 200, user |-> u, portfolio |-> p]
              /\ UNCHANGED <<portfolios, nextPortfolio>>
     ELSE IF PortfoliosOf(u) = {}
       THEN IF CanCreatePortfolio(portfolios, slug)
              THEN /\ nextPortfolio <= MaxPortfolios
                   /\ portfolios' = CreatedPortfolios(portfolios, nextPortfolio,
                                                      NewPortfolio(u, slug, TRUE, TRUE))
                   /\ nextPortfolio' = nextPortfolio + 1
                   /\ resp' = [op |-> "getDefault", status |-> 200, user |-> u,
                               portfolio |-> nextPortfolio]
              ELSE /\ \E st \in ErrorStatuses :
                        resp' = [op |-> "getDefault", status |-> st, user |-> u,
                                 portfolio |-> 0]
                   /\ UNCHANGED <<portfolios, nextPortfolio>>
     ELSE LET p == FirstPortfolioOf(u) IN
          /\ portfolios' = [ClearSiblingDefaults(portfolios, u, p) EXCEPT ![p].isDefault = TRUE]
          /\ UNCHANGED nextPortfolio
          /\ resp' = [op |-> "getDefault", status |-> 200, user |-> u, portfolio |-> p]

\* DELETE /api/portfolios/:id: portfolio.deleteOne() removes the document;
\* the pre('remove') hook that deletes the photos is not run for it.
DeletePortfolio(u, id) ==
  /\ Authenticated(u)
  /\ PortfolioUnchanged
  /\ UNCHANGED <<photos, nextPortfolio, nextPhoto>>
  /\ IF id \notin DOMAIN portfolios
       THEN /\ resp' = [op |-> "deletePortfolio", status |-> 404, user |-> u, portfolio |-> id]
            /\ UNCHANGED portfolios
     ELSE IF portfolios[id].user # u
       THEN /\ resp' = [op |-> "deletePortfolio", status |-> 403, user |-> u, portfolio |-> id]
            /\ UNCHANGED portfolios
     ELSE /\ portfolios' = Without(portfolios, id)
          /\ resp' = [op |-> "deletePortfolio", status |-> 200, user |-> u, portfolio |-> id]


\* The copies Photo.insertMany stores for the photos of portfolio `from`:
\* each keeps its flags and its approvalStatus, belongs to user u and to
\* portfolio `to`, and gets a new id (in the order of the originals).
CopiedPhotos(from, to, u) ==
  LET orig == PhotosIn(from)
      Rank(f) == Cardinality({g \in orig : g < f})
      Source(n) == CHOOSE f \in orig : Rank(f) = n - nextPhoto
  IN [n \in nextPhoto .. (nextPhoto + Cardinality(orig) - 1) |->
        [photos[Source(n)] EXCEPT !.user = u, !.portfolio = to]]

\* POST /api/portfolios/:id/duplicate.  insertMany runs no 'save' hook, so
\* stats.totalPhotos is left as it is.
Duplicate(u, id) ==
  /\ Authenticated(u)
  /\ PortfolioUnchanged
  /\ IF id \notin DOMAIN portfolios
       THEN /\ resp' = [op |-> "duplicate", status |-> 404, user |-> u, portfolio |-> id]
            /\ UNCHANGED <<portfolios, photos, nextPortfolio, nextPhoto>>
     ELSE IF ~PortfolioCanAccess(id, u) \/ PortfolioLimitReached(u)
       THEN /\ resp' = [op |-> "duplicate", status |-> 403, user |-> u, portfolio |-> id]
            /\ UNCHANGED <<portfolios, photos, nextPortfolio, nextPhoto>>
     ELSE IF ~CanCreatePortfolio(portfolios, CopySlug(portfolios[id].slug))
       THEN /\ \E st \in ErrorStatuses :
                 resp' = [op |-> "duplicate", status |-> st, user |-> u, portfolio |-> id]
            /\ UNCHANGED <<portfolios, photos, nextPortfolio, nextPhoto>>
     ELSE /\ nextPortfolio <= MaxPortfolios
          /\ nextPhoto + Cardinality(PhotosIn(id)) - 1 <= MaxPhotos
          /\ portfolios' =
               CreatedPortfolios(portfolios, nextPortfolio,
                 NewPortfolio(u, CopySlug(portfolios[id].slug),
                              portfolios[id].isPublic, FALSE))
          /\ nextPortfolio' = nextPortfolio + 1
          /\ photos' = photos @@ CopiedPhotos(id, nextPortfolio, u)
          /\ nextPhoto' = nextPhoto + Cardinality(PhotosIn(id))
          /\ resp' = [op |-> "duplicate", status |-> 201, user |-> u,
                      portfolio |-> nextPortfolio]

NextPortfolio ==
  \/ \E n \in OwnerNames : nextUser <= MaxOwners /\ Register(n, OwnerEmail)
  \/ \E u \in DOMAIN users : CreatePortfolio(u)
  \/ \E u \in DOMAIN users, id \in PortfolioIds, b \in PortfolioBodies :
       UpdatePortfolio(u, id, b)
  \/ \E u \in DOMAIN users, id \in PortfolioIds : SetDefault(u, id)
  \/ \E u \in DOMAIN users : GetDefault(u)
  \/ \E u \in DOMAIN users, id \in PortfolioIds : Duplicate(u, id)
  \/ \E u \in DOMAIN users, id \in PortfolioIds : DeletePortfolio(u, id)
  \/ Tick

SpecPortfolio == Init /\ [][NextPortfolio]_vars


\* C2: in every state each user has at most one portfolio with
\* isDefault = true.
C2_AtMostOneDefault ==
  \A u \in UserIds :
    Cardinality({p \in DOMAIN portfolios :
                   portfolios[p].user = u /\ portfolios[p].isDefault}) <= 1

\* C3: when PUT /api/portfolios/:id/default by the owner has completed on
\* portfolio P, P is the default and no other portfolio of that user is.
C3_SetDefaultExactlyOne ==
  (resp.op = "setDefault" /\ resp.status = 200) =>
     /\ portfolios[resp.portfolio].isDefault
     /\ \A q \in PortfoliosOf(resp.user) \ {resp.portfolio} :
          ~portfolios[q].isDefault


(***************************************************************************)
(* The upload routes (protect, checkSubscriptionLimits('photos'), multer,  *)
(* then the handler).                                                      *)
(***************************************************************************)
\* limits.free.photos of checkSubscriptionLimits
SubscriptionPhotoLimit == 30

\* planLimits.free of canUploadPhoto
PlanPhotoLimit == 30

\* the literal of the remainingSlots computation of POST /photos
SlotsPhotoLimit == 30

\* checkSubscriptionLimits('photos'): user.stats.totalPhotos >= limits[plan].photos,
\* where the limit of the pro plan is Infinity.
SubscriptionLimitReached(u) ==
  users[u].plan = "free" /\ users[u].totalPhotos >= SubscriptionPhotoLimit

\* userSchema.methods.canUploadPhoto
CanUploadPhoto(u) ==
  users[u].plan = "pro" \/ users[u].totalPhotos < PlanPhotoLimit

\* A faulty variant of RemainingSlots that forgets the photos already
\* counted; the quota property C9 does not hold of it.
RemainingSlotsIgnoringCount(u) == SlotsPhotoLimit

\* Math.max(0, 30 - req.user.stats.totalPhotos), the slots of a free user
RemainingSlots(u) ==
  IF SlotsPhotoLimit - users[u].totalPhotos > 0
    THEN SlotsPhotoLimit - users[u].totalPhotos
    ELSE 0

\* req.files.length > remainingSlots, where a pro user has Infinity slots
ExceedsRemainingSlots(u, n) ==
  users[u].plan = "free" /\ n > RemainingSlots(u)

\* `isPublic = true` of the destructured multipart body, then the cast of the
\* field to a Boolean: absent and "true" are true, "false" is false.
IsPublicFields == {"absent", "true", "false"}

BodyIsPublic(field) == field # "false"

UploadUnchanged ==
  UNCHANGED <<portfolios, nextUser, nextPortfolio, clock, bucket, nextFile, inflight,
              issued, consumed, removedUsers>>

UploadRejected(op, u, status, reason) ==
  /\ resp' = [op |-> op, status |-> status, user |-> u, reason |-> reason, created |-> 0]
  /\ UNCHANGED <<users, photos, nextPhoto>>

\* The documents Photo.create stores for n files, and the n increments of
\* stats.totalPhotos made by the pre('save') hook of photoSchema.
StoredPhotos(u, pid, n, isPublic) ==
  photos @@ [k \in nextPhoto .. (nextPhoto + n - 1) |-> NewPhoto(u, pid, isPublic)]

\* POST /api/upload/photo
UploadPhoto(u, pid, field, pipelineOk) ==
  /\ Authenticated(u)
  /\ UploadUnchanged
  /\ IF SubscriptionLimitReached(u)
       THEN UploadRejected("uploadPhoto", u, 403, "quota")
     ELSE IF pid \notin DOMAIN portfolios
       THEN UploadRejected("uploadPhoto", u, 404, "portfolio")
     ELSE IF portfolios[pid].user # u
       THEN UploadRejected("uploadPhoto", u, 403, "owner")
     ELSE IF ~CanUploadPhoto(u)
       THEN UploadRejected("uploadPhoto", u, 403, "quota")
     ELSE IF ~pipelineOk
       THEN \E st \in ErrorStatuses : UploadRejected("uploadPhoto", u, st, "pipeline")
     ELSE /\ photos' = StoredPhotos(u, pid, 1, BodyIsPublic(field))
          /\ users' = [users EXCEPT ![u].totalPhotos = @ + 1]
          /\ nextPhoto' = nextPhoto + 1
          /\ resp' = [op |-> "uploadPhoto", status |-> 201, user |-> u,
                      reason |-> "none", created |-> 1]

\* POST /api/upload/photos with n files (multer admits at most 10), every
\* file passing the image pipeline.
MaxFiles == 10

UploadPhotos(u, pid, n, field) ==
  /\ Authenticated(u)
  /\ n >= 1 /\ n <= MaxFiles
  /\ UploadUnchanged
  /\ IF SubscriptionLimitReached(u)
       THEN UploadRejected("uploadPhotos", u, 403, "quota")
     ELSE IF pid \notin DOMAIN portfolios
       THEN UploadRejected("uploadPhotos", u, 404, "portfolio")
     ELSE IF portfolios[pid].user # u
       THEN UploadRejected("uploadPhotos", u, 403, "owner")
     ELSE IF ExceedsRemainingSlots(u, n)
       THEN UploadRejected("uploadPhotos", u, 403, "quota")
     ELSE /\ photos' = StoredPhotos(u, pid, n, BodyIsPublic(field))
          /\ users' = [users EXCEPT ![u].totalPhotos = @ + n]
          /\ nextPhoto' = nextPhoto + n
          /\ resp' = [op |-> "uploadPhotos", status |-> 201, user |-> u,
                      reason |-> "none", created |-> n]

\* DELETE /api/upload/photo/:id: photo.remove(), whose pre('remove') hook
\* decrements stats.totalPhotos of the photo's user.
RemoveUploadedPhoto(u, id) ==
  /\ Authenticated(u)
  /\ UploadUnchanged
  /\ UNCHANGED nextPhoto
  /\ IF id \notin DOMAIN photos
       THEN /\ resp' = [op |-> "removeUploadedPhoto", status |-> 404, user |-> u, photo |-> id]
            /\ UNCHANGED <<users, photos>>
     ELSE IF photos[id].user # u
       THEN /\ resp' = [op |-> "removeUploadedPhoto", status |-> 403, user |-> u, photo |-> id]
            /\ UNCHANGED <<users, photos>>
     ELSE /\ photos' = Without(photos, id)
          /\ users' = [users EXCEPT ![u].totalPhotos = @ - 1]
          /\ resp' = [op |-> "removeUploadedPhoto", status |-> 200, user |-> u, photo |-> id]


(***************************************************************************)
(* The photo routes.                                                       *)
(***************************************************************************)
PhotoUnchanged ==
  UNCHANGED <<users, portfolios, nextUser, nextPortfolio, nextPhoto, clock, bucket, nextFile, inflight,
              issued, consumed, removedUsers>>

\* Request bodies of PUT /api/photos/:id (bodies of one field): validatePhoto
\* checks the fields it knows and lets the others through.
PhotoBodies ==
  UNION { [{"isPublic"} -> BOOLEAN],
          [{"isFeatured"} -> BOOLEAN],
          [{"approvalStatus"} -> {"approved"}],
          [{"portfolio"} -> PortfolioIds] }

\* PUT /api/photos/:id: Photo.findByIdAndUpdate(id, req.body)
UpdatePhoto(u, id, body) ==
  /\ Authenticated(u)
  /\ PhotoUnchanged
  /\ IF id \notin DOMAIN photos
       THEN /\ resp' = [op |-> "updatePhoto", status |-> 404, user |-> u, photo |-> id]
            /\ UNCHANGED photos
     ELSE IF photos[id].user # u
       THEN /\ resp' = [op |-> "updatePhoto", status |-> 403, user |-> u, photo |-> id]
            /\ UNCHANGED photos
     ELSE /\ photos' = [photos EXCEPT ![id] = ApplyBody(@, body)]
          /\ resp' = [op |-> "updatePhoto", status |-> 200, user |-> u, photo |-> id]

\* DELETE /api/photos/:id: photo.deleteOne(), which runs no 'remove' hook.
DeletePhoto(u, id) ==
  /\ Authenticated(u)
  /\ PhotoUnchanged
  /\ IF id \notin DOMAIN photos
       THEN /\ resp' = [op |-> "deletePhoto", status |-> 404, user |-> u, photo |-> id]
            /\ UNCHANGED photos
     ELSE IF photos[id].user # u
       THEN /\ resp' = [op |-> "deletePhoto", status |-> 403, user |-> u, photo |-> id]
            /\ UNCHANGED photos
     ELSE /\ photos' = Without(photos, id)
          /\ resp' = [op |-> "deletePhoto", status |-> 200, user |-> u, photo |-> id]

\* canReviewPhotos
CanReviewPhotos(a) == users[a].role \in {"admin", "super_admin"}

\* if (photo.approvalStatus !== 'pending'), without the check and as written
AlreadyReviewedNever(photo) == FALSE

AlreadyReviewed(photo) == photo.approvalStatus # "pending"

\* POST /api/admin/photos/:id/approve and /reject with a body that passes the
\* validation: photoSchema.methods.approve and reject set approvalStatus,
\* isPublic and adminReview (reviewedBy, reviewedAt) and save.  reviewedBy 0
\* and reviewedAt -1 stand for a photo without adminReview.
ReviewPhoto(a, id, approve) ==
  LET op == IF approve THEN "approvePhoto" ELSE "rejectPhoto" IN
  /\ Authenticated(a)
  /\ PhotoUnchanged
  /\ IF ~CanReviewPhotos(a)
       THEN /\ resp' = [op |-> op, status |-> 403, user |-> a, photo |-> id]
            /\ UNCHANGED photos
     ELSE IF id \notin DOMAIN photos
       THEN /\ resp' = [op |-> op, status |-> 404, user |-> a, photo |-> id]
            /\ UNCHANGED photos
     ELSE IF AlreadyReviewed(photos[id])
       THEN /\ resp' = [op |-> op, status |-> 400, user |-> a, photo |-> id]
            /\ UNCHANGED photos
     ELSE /\ photos' = [photos EXCEPT
                          ![id].approvalStatus = IF approve THEN "approved" ELSE "rejected",
                          ![id].isPublic = approve,
                          ![id].reviewedBy = a,
                          ![id].reviewedAt = clock]
          /\ resp' = [op |-> op, status |-> 200, user |-> a, photo |-> id]

\* toString() of an ObjectId and of a populated document.
IdToString(id) == <<"ObjectId", id>>
DocumentToString(id) == <<"document", id>>

\* optionalAuth: req.user is the active user of a valid token, else nothing
\* (written 0).
Viewers == {0} \cup {u \in DOMAIN users : users[u].isActive}

\* GET /api/photos/:id.  photo.user is populated: the user document, or null
\* when that user no longer exists.  canAccess compares
\* user._id.toString() with this.user.toString(); reading a property of
\* null throws, and the error goes to next(error).
GetPhoto(v, id) ==
  LET owner == photos[id].user
      populated == owner \in DOMAIN users
      Answer(st) == resp' = [op |-> "getPhoto", status |-> st, user |-> v, photo |-> id]
  IN
  /\ v \in Viewers
  /\ PhotoUnchanged
  /\ UNCHANGED photos
  /\ IF id \notin DOMAIN photos
       THEN Answer(404)
     ELSE IF photos[id].isPublic
       THEN IF v # 0 /\ ~populated
              THEN \E st \in ErrorStatuses : Answer(st)
              ELSE Answer(200)
     ELSE IF v = 0
       THEN Answer(403)
     ELSE IF ~populated
       THEN \E st \in ErrorStatuses : Answer(st)
     ELSE IF IdToString(v) # DocumentToString(owner)
       THEN Answer(403)
     ELSE Answer(200)


(***************************************************************************)
(* The public listings.                                                    *)
(***************************************************************************)
\* photoSchema.statics.search with isPublic: true: approvalStatus 'approved'
\* is added to the query; userFilter and portfolioFilter are 0 when absent.
Search(userFilter, portfolioFilter) ==
  {f \in DOMAIN photos :
     /\ photos[f].isPublic
     /\ photos[f].approvalStatus = "approved"
     /\ userFilter # 0 => photos[f].user = userFilter
     /\ portfolioFilter # 0 => photos[f].portfolio = portfolioFilter}

\* photoSchema.statics.findFeatured
FindFeatured ==
  {f \in DOMAIN photos :
     photos[f].isPublic /\ photos[f].isFeatured /\ photos[f].approvalStatus = "approved"}

\* photoSchema.statics.findTrending (every photo of the model is younger
\* than the seven days of the query)
FindTrending ==
  {f \in DOMAIN photos : photos[f].isPublic /\ photos[f].approvalStatus = "approved"}

\* photoSchema.statics.findByPortfolio with isPublic true, or null (any)
FindByPortfolio(p, publicOnly) ==
  {f \in PhotosIn(p) :
     publicOnly => (photos[f].isPublic /\ photos[f].approvalStatus = "approved")}

\* Photo.find({ user, isPublic: true, isFeatured: true }) of GET /api/users/:username
FeaturedPhotosOf(u) ==
  {f \in PhotosOf(u) : photos[f].isPublic /\ photos[f].isFeatured}

Listed(op, v, status, listed) ==
  /\ resp' = [op |-> op, status |-> status, user |-> v, photos |-> listed]
  /\ UNCHANGED <<users, portfolios, photos, nextUser, nextPortfolio, nextPhoto,
                 clock, bucket, nextFile, inflight, issued, consumed, removedUsers>>

\* the default of the limit query parameter; page is 1 and skip is 0
DefaultLimit == 20

\* Math.ceil(total / limit)
Ceil(total, limit) == (total + limit - 1) \div limit

\* the answer of a paginated listing: the page, and pagination.total and
\* pagination.pages
ListedPage(op, v, listed, total) ==
  /\ resp' = [op |-> op, status |-> 200, user |-> v, photos |-> listed,
              total |-> total, pages |-> Ceil(total, DefaultLimit)]
  /\ UNCHANGED <<users, portfolios, photos, nextUser, nextPortfolio, nextPhoto,
                 clock, bucket, nextFile, inflight, issued, consumed, removedUsers>>

\* Photo.countDocuments({ isPublic: true, approvalStatus: 'approved', user,
\* portfolio }) of GET /api/photos
CountListed(userFilter, portfolioFilter) ==
  Cardinality({f \in DOMAIN photos :
                 /\ photos[f].isPublic
                 /\ photos[f].approvalStatus = "approved"
                 /\ userFilter # 0 => photos[f].user = userFilter
                 /\ portfolioFilter # 0 => photos[f].portfolio = portfolioFilter})

\* Photo.countDocuments({ user, isPublic: true }) of GET /api/users/:username/photos
CountUserPhotos(u) ==
  Cardinality({f \in DOMAIN photos : photos[f].user = u /\ photos[f].isPublic})

\* GET /api/photos?user=&portfolio=
ListPhotos(v, userFilter, portfolioFilter) ==
  /\ v \in Viewers
  /\ ListedPage("listPhotos", v, Search(userFilter, portfolioFilter),
                CountListed(userFilter, portfolioFilter))

\* GET /api/photos/featured (no authentication middleware)
ListFeatured == Listed("listFeatured", 0, 200, FindFeatured)

\* GET /api/photos/trending (no authentication middleware)
ListTrending == Listed("listTrending", 0, 200, FindTrending)

\* GET /api/portfolios/:slug.  findBySlug populates the portfolio's user, so
\* canAccess of a private portfolio compares an id with a printed document.
GetPortfolioBySlug(v, slug) ==
  LET found == {p \in DOMAIN portfolios : portfolios[p].slug = SlugSetter(slug)} IN
  /\ v \in Viewers
  /\ IF found = {}
       THEN Listed("getPortfolio", v, 404, {})
       ELSE \E p \in found :
         LET owner == portfolios[p].user
             populated == owner \in DOMAIN users
         IN
         IF portfolios[p].isPublic
           THEN IF v # 0 /\ ~populated
                  THEN \E st \in ErrorStatuses : Listed("getPortfolio", v, st, {})
                  ELSE Listed("getPortfolio", v, 200, FindByPortfolio(p, TRUE))
         ELSE IF v = 0
           THEN Listed("getPortfolio", v, 403, {})
         ELSE IF ~populated
           THEN \E st \in ErrorStatuses : Listed("getPortfolio", v, st, {})
         ELSE IF IdToString(v) # DocumentToString(owner)
           THEN Listed("getPortfolio", v, 403, {})
         ELSE Listed("getPortfolio", v, 200, FindByPortfolio(p, FALSE))

\* The profile check of GET /api/users/:username and /:username/photos.
ProfileHidden(v, u) == ~users[u].publicProfile /\ (v = 0 \/ v # u)

\* GET /api/users/:username: the featuredPhotos of the answer
GetUserProfile(v, username) ==
  LET found == {u \in DOMAIN users : users[u].username = username} IN
  /\ v \in Viewers
  /\ IF found = {}
       THEN Listed("getUserProfile", v, 404, {})
       ELSE \E u \in found :
         IF ProfileHidden(v, u)
           THEN Listed("getUserProfile", v, 403, {})
           ELSE Listed("getUserProfile", v, 200, FeaturedPhotosOf(u))

\* GET /api/users/:username/photos
GetUserPhotos(v, username) ==
  LET found == {u \in DOMAIN users : users[u].username = username} IN
  /\ v \in Viewers
  /\ IF found = {}
       THEN Listed("getUserPhotos", v, 404, {})
       ELSE \E u \in found :
         IF ProfileHidden(v, u)
           THEN Listed("getUserPhotos", v, 403, {})
           ELSE ListedPage("getUserPhotos", v, Search(u, 0), CountUserPhotos(u))

ListingOps == {"listPhotos", "listFeatured", "listTrending", "getPortfolio",
               "getUserProfile", "getUserPhotos"}

NextPhoto ==
  \/ \E n \in OwnerNames : nextUser <= MaxOwners /\ Register(n, OwnerEmail)
  \/ \E u \in DOMAIN users, pid \in PortfolioIds, f \in IsPublicFields, ok \in BOOLEAN :
       nextPhoto <= MaxPhotos /\ UploadPhoto(u, pid, f, ok)
  \/ \E u \in DOMAIN users, id \in PhotoIds, b \in PhotoBodies : UpdatePhoto(u, id, b)
  \/ \E u \in DOMAIN users, id \in PhotoIds : DeletePhoto(u, id)
  \/ \E a \in DOMAIN users, id \in PhotoIds, approve \in BOOLEAN : ReviewPhoto(a, id, approve)
  \/ \E v \in Viewers, id \in PhotoIds : GetPhoto(v, id)
  \/ \E v \in Viewers, uf \in {0} \cup DOMAIN users, pf \in {0} \cup DOMAIN portfolios :
       ListPhotos(v, uf, pf)
  \/ ListFeatured
  \/ ListTrending
  \/ \E v \in Viewers, p \in DOMAIN portfolios : GetPortfolioBySlug(v, portfolios[p].slug)
  \/ \E v \in Viewers, n \in Usernames : GetUserProfile(v, n)
  \/ \E v \in Viewers, n \in Usernames : GetUserPhotos(v, n)

SpecPhoto == Init /\ [][NextPhoto]_vars

\* C4: no answer of a public listing (GET /api/photos, /featured, /trending,
\* the photos of GET /api/portfolios/:slug, GET /api/users/:username and
\* GET /api/users/:username/photos) contains a photo whose approvalStatus
\* is not approved.
C4_ListingsOnlyApproved ==
  resp.op \in ListingOps =>
    \A f \in resp.photos : photos[f].approvalStatus = "approved"

\* C5: GET /api/photos/:id by anyone but the owner, for a photo that is not
\* public or is still pending, is answered 403 or 404.
C5_NonOwnerFetchDenied ==
  ( /\ resp.op = "getPhoto"
    /\ resp.photo \in DOMAIN photos
    /\ resp.user # photos[resp.photo].user
    /\ (~photos[resp.photo].isPublic \/ photos[resp.photo].approvalStatus = "pending") )
  => resp.status \in {403, 404}


(***************************************************************************)
(* Deleting accounts and portfolios that hold content.                     *)
(***************************************************************************)
NextCascade ==
  \/ \E n \in OwnerNames : nextUser <= MaxOwners /\ Register(n, OwnerEmail)
  \/ \E u \in DOMAIN users, pid \in PortfolioIds, f \in IsPublicFields, ok \in BOOLEAN :
       nextPhoto <= MaxPhotos /\ UploadPhoto(u, pid, f, ok)
  \/ \E u \in DOMAIN users, id \in PortfolioIds : Duplicate(u, id)
  \/ \E u \in DOMAIN users, id \in PortfolioIds : DeletePortfolio(u, id)
  \/ \E u \in DOMAIN users, id \in PhotoIds : RemoveUploadedPhoto(u, id)
  \/ \E u \in DOMAIN users, ok \in BOOLEAN : DeleteMe(u, ok)
  \/ \E a \in DOMAIN users, id \in UserIds : AdminDeleteUser(a, id)

SpecCascade == Init /\ [][NextCascade]_vars

\* C7: once a user account has been deleted (DELETE /api/auth/me or
\* DELETE /api/admin/users/:id), no portfolio and no photo owned by that
\* user remains.
C7_DeletedUserOwnsNothing ==
  \A u \in removedUsers : PortfoliosOf(u) = {} /\ PhotosOf(u) = {}

\* C8: the portfolio reference of every photo points to an existing
\* portfolio (DELETE /api/portfolios/:id removes the photos it holds).
C8_PhotoPortfolioExists ==
  \A f \in DOMAIN photos : photos[f].portfolio \in DOMAIN portfolios


(***************************************************************************)
(* The upload quota.  The counter the quota reads is stats.totalPhotos;    *)
(* DELETE /api/photos/:id leaves it as it is, so it climbs to the limit    *)
(* while few photos are stored.                                            *)
(***************************************************************************)
QuotaUsername == <<"a","n","n">>

\* Uploads are explored from the states where the earlier photos have been
\* deleted again, up to MaxQuotaIds photo ids.
QuotaRoom(n) ==
  /\ nextPhoto + n - 1 <= MaxQuotaIds
  /\ DOMAIN photos = {}

NextQuota ==
  \/ nextUser <= MaxOwners /\ Register(QuotaUsername, OwnerEmail)
  \/ \E u \in DOMAIN users : GetDefault(u)
  \/ \E u \in DOMAIN users, pid \in DOMAIN portfolios :
       QuotaRoom(1) /\ UploadPhoto(u, pid, "absent", TRUE)
  \/ \E u \in DOMAIN users, pid \in DOMAIN portfolios, n \in 1..MaxBatch :
       QuotaRoom(n) /\ UploadPhotos(u, pid, n, "absent")
  \/ \E u \in DOMAIN users, id \in DOMAIN photos : DeletePhoto(u, id)

SpecQuota == Init /\ [][NextQuota]_vars


NoToken == [id |-> 0, iat |-> 0, secret |-> "none"]

AccessTokensIssued == {GenerateAuthToken(rt.id, rt.iat) : rt \in issued}

ForgedTokens == {[t EXCEPT !.secret = "other"] : t \in AccessTokensIssued}

PresentableTokens == AccessTokensIssued \cup ForgedTokens \cup {NoToken}

Requests == [bearer : PresentableTokens, cookie : PresentableTokens]

\* the header's token if there is one, else the cookie's
ExtractToken(req) == IF req.bearer # NoToken THEN req.bearer ELSE req.cookie

\* jwt.verify without the expiry check
JwtVerifyIgnoringExpiry(token, expired) == token.secret = "JWT_SECRET"

\* jwt.verify(token, process.env.JWT_SECRET): signature and expiry
JwtVerify(token, expired) == token.secret = "JWT_SECRET" /\ ~expired

\* .select('-password'), .select('-password -refreshTokens')
SelectWithout(doc, fields) == [f \in (DOMAIN doc) \ fields |-> doc[f]]

\* protect: next is TRUE when the middleware calls next(), and then user is
\* the id and reqUser the document put in req.user.
Unauthorized == [status |-> 401, next |-> FALSE, user |-> 0]

Protect(req, expired) ==
  LET token == ExtractToken(req) IN
  IF token = NoToken THEN Unauthorized
  ELSE IF ~JwtVerify(token, expired) THEN Unauthorized
  ELSE IF token.id \notin DOMAIN users THEN Unauthorized
  ELSE IF ~users[token.id].isActive THEN Unauthorized
  ELSE [status |-> 0, next |-> TRUE, user |-> token.id,
        reqUser |-> SelectWithout(users[token.id], {"password"})]

\* GET /api/auth/me behind protect
GetMe(req, expired) ==
  LET p == Protect(req, expired) IN
  /\ expired => ExtractToken(req).iat < clock
  /\ UNCHANGED <<users, portfolios, photos, nextUser, nextPortfolio, nextPhoto,
                 clock, bucket, nextFile, inflight, issued, consumed, removedUsers>>
  /\ resp' = IF p.next
               THEN [op |-> "getMe", status |-> 200, user |-> p.user,
                     reqUser |-> p.reqUser,
                     data |-> SelectWithout(users[p.user],
                                            {"password", "refreshTokens"})]
               ELSE [op |-> "getMe", status |-> p.status, user |-> 0]

NextSession ==
  \/ \E n \in OwnerNames : nextUser <= MaxOwners /\ Register(n, OwnerEmail)
  \/ \E i \in OwnerNames, ok \in BOOLEAN : Login(i, ok)
  \/ \E req \in Requests, expired \in BOOLEAN : GetMe(req, expired)
  \/ \E a \in DOMAIN users, id \in DOMAIN users, b \in BOOLEAN : UpdateStatus(a, id, b)
  \/ \E u \in DOMAIN users : DeleteMe(u, TRUE)
  \/ Tick

SpecSession == Init /\ [][NextSession]_vars

\* C11: for every active user, a login whose identifier is the user's stored
\* e-mail or stored username, with the right password, is answered 200 for
\* that user, and protect, given the returned access token, attaches that
\* user.  (The password flag of Login is about the document the lookup
\* found, so the statement is made for the logins whose lookup finds no
\* other user.)
C11_LoginResolvesToUser ==
  [][\A u \in DOMAIN users, i \in Identifiers :
       ( /\ users[u].isActive
         /\ i \in {users[u].email, users[u].username}
         /\ FindByEmailOrUsername(i) \subseteq {u}
         /\ Login(i, TRUE) )
       => /\ resp'.status = 200
          /\ resp'.user = u
          /\ \E t \in {GenerateAuthToken(u, c) : c \in 0..MaxClock} :
               /\ t = resp'.token
               /\ Protect([bearer |-> t, cookie |-> NoToken], FALSE)'.next
               /\ Protect([bearer |-> t, cookie |-> NoToken], FALSE)'.user = u]_vars

\* C13: the handler behind protect runs only for a request whose token (the
\* header's, or else the cookie's) is signed with the server's secret, has
\* not expired and names a user who exists and is active; every other
\* request is answered 401 and the handler does not run; the document
\* attached to the request has no password field and is the token's user.
C13_ProtectGuards ==
  [][\A req \in Requests, expired \in BOOLEAN :
       GetMe(req, expired) =>
         LET t == ExtractToken(req)
             valid == /\ t # NoToken
                      /\ t.secret = "JWT_SECRET"
                      /\ ~expired
                      /\ t.id \in DOMAIN users
                      /\ users[t.id].isActive
         IN /\ valid => /\ resp'.status = 200
                        /\ resp'.user = t.id
                        /\ "password" \notin DOMAIN resp'.reqUser
                        /\ resp'.reqUser.username = users[t.id].username
            /\ ~valid => /\ resp'.status = 401
                         /\ "data" \notin DOMAIN resp']_vars

C13_Witness ==
  /\ resp.op = "getMe"
  /\ resp.status = 200
  /\ resp.user \in DOMAIN users
  /\ "password" \in DOMAIN users[resp.user]
  /\ "password" \notin DOMAIN resp.reqUser

(***************************************************************************)
(* PUT /api/photos/reorder.  The photo router declares PUT /:id before     *)
(* PUT /reorder, and Express gives a request to the first declared route   *)
(* whose path matches; a route's validation that answers 400 ends the      *)
(* request.                                                                *)
(***************************************************************************)
ReorderSegment == <<"r","e","o","r","d","e","r">>

HexChars == Digits \cup {"a", "b", "c", "d", "e", "f", "A", "B", "C", "D", "E", "F"}

\* isMongoId: 24 hexadecimal characters
IsMongoId(s) == Len(s) = 24 /\ \A i \in 1..Len(s) : s[i] \in HexChars

\* the router with PUT /reorder declared first
PutPhotoRoutesReorderFirst == <<"/reorder", "/:id">>

\* the PUT routes of the photo router, in the order of their declaration
PutPhotoRoutes == <<"/:id", "/reorder">>

RouteMatches(route, segment) ==
  \/ route = "/:id"
  \/ route = "/reorder" /\ segment = ReorderSegment

FirstMatch(routes, segment) ==
  LET i == CHOOSE k \in 1..Len(routes) :
             /\ RouteMatches(routes[k], segment)
             /\ \A j \in 1..(k - 1) : ~RouteMatches(routes[j], segment)
  IN routes[i]

\* the values of photos.*.order a request sends
Orders == {0, 1}

\* PUT /api/photos/reorder with a body of one item { id, order }
Reorder(u, id, order) ==
  /\ Authenticated(u)
  /\ PhotoUnchanged
  /\ IF FirstMatch(PutPhotoRoutes, ReorderSegment) = "/:id"
       THEN \* validateObjectId('id') of PUT /:id, then its findById
            /\ resp' = [op |-> "reorder",
                        status |-> IF IsMongoId(ReorderSegment) THEN 404 ELSE 400,
                        user |-> u, photo |-> id]
            /\ UNCHANGED photos
       ELSE \* Photo.findByIdAndUpdate(photoData.id, { order })
            /\ photos' = IF id \in DOMAIN photos
                           THEN [photos EXCEPT ![id].order = order]
                           ELSE photos
            /\ resp' = [op |-> "reorder", status |-> 200, user |-> u, photo |-> id]

\* Photos uploaded in the ownership and the moderation specification.
MaxOwnedPhotos == 1

NextOwnership ==
  \/ \E n \in OwnerNames : nextUser <= MaxOwners /\ Register(n, OwnerEmail)
  \/ \E u \in DOMAIN users : GetDefault(u)
  \/ \E u \in DOMAIN users, pid \in DOMAIN portfolios :
       /\ nextPhoto <= MaxOwnedPhotos
       /\ portfolios[pid].user = u
       /\ UploadPhoto(u, pid, "absent", TRUE)
  \/ \E u \in DOMAIN users, id \in DOMAIN photos : UpdatePhoto(u, id, [isFeatured |-> TRUE])
  \/ \E u \in DOMAIN users, id \in DOMAIN photos : DeletePhoto(u, id)
  \/ \E u \in DOMAIN users, id \in DOMAIN photos, o \in Orders : Reorder(u, id, o)
  \/ \E u \in DOMAIN users, id \in DOMAIN portfolios : UpdatePortfolio(u, id, [isPublic |-> FALSE])
  \/ \E u \in DOMAIN users, id \in DOMAIN portfolios : SetDefault(u, id)
  \/ \E u \in DOMAIN users, id \in DOMAIN portfolios : DeletePortfolio(u, id)

SpecOwnership == Init /\ [][NextOwnership]_vars

OwnerGatedOps ==
  {"updatePhoto", "deletePhoto", "reorder", "updatePortfolio", "deletePortfolio", "setDefault"}

C14_TotalPhotosIsCount ==
  \A u \in DOMAIN users : users[u].totalPhotos = Cardinality(PhotosOf(u))

(***************************************************************************)
(* The R2 upload router and the image pipeline of utils/r2.js.             *)
(*                                                                         *)
(* The source holds two upload routers for /api/upload: the Cloudinary one *)
(* (UploadPhoto, UploadPhotos, RemoveUploadedPhoto above) and the R2 one   *)
(* of this section.  A storage key is the file id drawn for the upload and *)
(* whether it is the key of the thumbnail; publicId of a photo is the key  *)
(* of its main image (file 0 for a photo stored by the Cloudinary router,  *)
(* whose objects are not in the bucket).  The stage at which the pipeline  *)
(* meets a failure of sharp or of the bucket is an input of the request.   *)
(***************************************************************************)
MaxUploads == 2

\* generateKey(folder, `${userId}/${timestamp}_${fileId}.jpg`) and the same
\* with _thumb.jpg
FileKey(file, thumb) == [file |-> file, thumb |-> thumb]

\* photo.publicId.replace('.jpg', '_thumb.jpg')
ThumbnailKeyOf(key) == [key EXCEPT !.thumb = TRUE]

Stages == <<"metadata", "resize", "uploadMain", "thumbnail", "uploadThumbnail", "colors">>

FailurePoints == {Stages[i] : i \in 1..Len(Stages)} \cup {"none"}

\* extractDominantColors: its own catch logs the error and returns []
ExtractDominantColors(fails) == IF fails THEN << >> ELSE <<"rgb">>

\* `const thumbnailBuffer` is declared inside the block of
\* `if (generateThumbnail)`; the return statement, outside that block, reads
\* thumbnailBuffer.length when thumbnailResult is set.
ThumbnailBufferInScope == FALSE

\* processAndUploadImage: ok is FALSE when it throws; written are the keys
\* uploadToR2 has stored by then.
ProcessAndUploadImage(file, generateThumbnail, failAt) ==
  LET main == FileKey(file, FALSE)
      thumb == FileKey(file, TRUE)
  IN
  IF failAt \in {"metadata", "resize", "uploadMain"}
    THEN [ok |-> FALSE, written |-> {}]
  ELSE IF generateThumbnail /\ failAt \in {"thumbnail", "uploadThumbnail"}
    THEN [ok |-> FALSE, written |-> {main}]
  ELSE IF generateThumbnail /\ ~ThumbnailBufferInScope
    THEN [ok |-> FALSE, written |-> {main, thumb}]
  ELSE [ok |-> TRUE,
        written |-> IF generateThumbnail THEN {main, thumb} ELSE {main},
        mainImage |-> main,
        thumbnail |-> IF generateThumbnail THEN <<thumb>> ELSE << >>,
        colorPalette |-> ExtractDominantColors(failAt = "colors"),
        metadata |-> "metadata"]

R2Unchanged ==
  UNCHANGED <<portfolios, nextUser, nextPortfolio, clock, issued, consumed, removedUsers,
              inflight>>

\* POST /api/upload/photo of the R2 router
UploadPhotoR2(u, pid, field, failAt) ==
  LET r == ProcessAndUploadImage(nextFile, TRUE, failAt) IN
  /\ Authenticated(u)
  /\ R2Unchanged
  /\ IF SubscriptionLimitReached(u)
       THEN UploadRejected("uploadPhotoR2", u, 403, "quota") /\ UNCHANGED <<bucket, nextFile>>
     ELSE IF pid \notin DOMAIN portfolios
       THEN UploadRejected("uploadPhotoR2", u, 404, "portfolio") /\ UNCHANGED <<bucket, nextFile>>
     ELSE IF portfolios[pid].user # u
       THEN UploadRejected("uploadPhotoR2", u, 403, "owner") /\ UNCHANGED <<bucket, nextFile>>
     ELSE IF ~CanUploadPhoto(u)
       THEN UploadRejected("uploadPhotoR2", u, 403, "quota") /\ UNCHANGED <<bucket, nextFile>>
     ELSE /\ nextFile <= MaxUploads
          /\ nextFile' = nextFile + 1
          /\ bucket' = bucket \cup r.written
          /\ IF ~r.ok \/ r.thumbnail = << >>
               THEN \E st \in ErrorStatuses :
                      UploadRejected("uploadPhotoR2", u, st, "pipeline")
               ELSE /\ photos' = photos @@
                         (nextPhoto :> [NewPhoto(u, pid, BodyIsPublic(field))
                                          EXCEPT !.publicId = r.mainImage])
                    /\ users' = [users EXCEPT ![u].totalPhotos = @ + 1]
                    /\ nextPhoto' = nextPhoto + 1
                    /\ resp' = [op |-> "uploadPhotoR2", status |-> 201, user |-> u,
                                reason |-> "none", created |-> 1]

\* the handler with the catch around the two deleteFromR2 calls taken away
R2DeletionErrorPropagates(mainOk, thumbOk) == mainOk /\ thumbOk

\* try { deleteFromR2(main); deleteFromR2(thumbnail) } catch { log }: the
\* handler goes on to the database deletion whatever the bucket answered
R2DeletionSurvived(mainOk, thumbOk) == TRUE

\* the bucket after the two deleteFromR2 calls: the second is not made when
\* the first throws
AfterR2Deletion(key, mainOk, thumbOk) ==
  IF ~mainOk THEN bucket
  ELSE IF ~thumbOk THEN bucket \ {key}
  ELSE bucket \ {key, ThumbnailKeyOf(key)}

\* DELETE /api/upload/photo/:id of the R2 router
DeletePhotoR2(u, id, mainOk, thumbOk) ==
  /\ Authenticated(u)
  /\ R2Unchanged
  /\ UNCHANGED <<nextPhoto, nextFile>>
  /\ IF id \notin DOMAIN photos
       THEN /\ resp' = [op |-> "deletePhotoR2", status |-> 404, user |-> u, photo |-> id]
            /\ UNCHANGED <<users, photos, bucket>>
     ELSE IF photos[id].user # u
       THEN /\ resp' = [op |-> "deletePhotoR2", status |-> 403, user |-> u, photo |-> id]
            /\ UNCHANGED <<users, photos, bucket>>
     ELSE /\ bucket' = AfterR2Deletion(photos[id].publicId, mainOk, thumbOk)
          /\ IF R2DeletionSurvived(mainOk, thumbOk)
               THEN \* photo.remove(), with the pre('remove') stats hook
                    /\ photos' = Without(photos, id)
                    /\ users' = [users EXCEPT ![u].totalPhotos = @ - 1]
                    /\ resp' = [op |-> "deletePhotoR2", status |-> 200, user |-> u,
                                photo |-> id, r2Error |-> ~(mainOk /\ thumbOk)]
               ELSE /\ \E st \in ErrorStatuses :
                         resp' = [op |-> "deletePhotoR2", status |-> st, user |-> u,
                                  photo |-> id]
                    /\ UNCHANGED <<users, photos>>

NextStorage ==
  \/ \E n \in OwnerNames : nextUser <= MaxOwners /\ Register(n, OwnerEmail)
  \/ \E u \in DOMAIN users : GetDefault(u)
  \/ \E u \in DOMAIN users, pid \in DOMAIN portfolios :
       nextPhoto <= MaxPhotos /\ UploadPhoto(u, pid, "absent", TRUE)
  \/ \E u \in DOMAIN users, pid \in DOMAIN portfolios, failAt \in FailurePoints :
       UploadPhotoR2(u, pid, "absent", failAt)
  \/ \E u \in DOMAIN users, id \in DOMAIN photos, mainOk \in BOOLEAN, thumbOk \in BOOLEAN :
       DeletePhotoR2(u, id, mainOk, thumbOk)

SpecStorage == Init /\ [][NextStorage]_vars

\* C15: when a stage of the image pipeline fails during POST /api/upload/photo
\* (metadata, resize, main upload, thumbnail, thumbnail upload, colours), the
\* request ends in an error, no Photo is created and the bucket holds no
\* object it did not hold before the request.
C15_FailedPipelineLeavesNothing ==
  [][\A u \in DOMAIN users, pid \in DOMAIN portfolios, failAt \in FailurePoints \ {"none"} :
       ( /\ UploadPhotoR2(u, pid, "absent", failAt)
         /\ resp'.reason = "pipeline" )
       => /\ resp'.status \in ErrorStatuses
          /\ photos' = photos
          /\ bucket' = bucket]_vars

\* C16: when every stage succeeds with thumbnail generation on,
\* processAndUploadImage returns mainImage, a thumbnail that is not null,
\* colorPalette and metadata, and POST /api/upload/photo stores exactly one
\* new Photo of the uploader and answers 201.
C16_PipelineResultStored ==
  [][\A u \in DOMAIN users, pid \in DOMAIN portfolios :
       ( /\ UploadPhotoR2(u, pid, "absent", "none")
         /\ resp'.reason \notin {"quota", "portfolio", "owner"} )
       => /\ ProcessAndUploadImage(nextFile, TRUE, "none").ok
          /\ ProcessAndUploadImage(nextFile, TRUE, "none").thumbnail # << >>
          /\ resp'.status = 201
          /\ DOMAIN photos' = DOMAIN photos \cup {nextPhoto}
          /\ photos'[nextPhoto].user = u]_vars

\* C17: when the owner deletes a photo with DELETE /api/upload/photo/:id and
\* the deletion of the main object or of the thumbnail object fails, the
\* Photo document is removed all the same and the response is 200.
C17_StorageFailureTolerated ==
  [][\A u \in DOMAIN users, id \in DOMAIN photos, mainOk \in BOOLEAN, thumbOk \in BOOLEAN :
       ( /\ photos[id].user = u
         /\ ~(mainOk /\ thumbOk)
         /\ DeletePhotoR2(u, id, mainOk, thumbOk) )
       => /\ id \notin DOMAIN photos'
          /\ resp'.status = 200]_vars

C17_Witness ==
  /\ resp.op = "deletePhotoR2"
  /\ resp.status = 200
  /\ resp.r2Error
  /\ resp.photo \notin DOMAIN photos
  /\ users[resp.user].totalPhotos = Cardinality(PhotosOf(resp.user))

(***************************************************************************)
(* PUT /api/portfolios/:id/default, step by step.  The handler awaits      *)
(* three times: Portfolio.findById, the updateMany of the pre('save')      *)
(* hook, and the write of save(); between two awaits other requests run.   *)
(* inflight[r] is the request r between its steps: the document it read    *)
(* (user, portfolio, and whether setting isDefault modified the copy),     *)
(* its position, and whether another request was in progress while it was. *)
(***************************************************************************)
MaxRequests == 2

RequestIds == 1..MaxRequests

InProgress == {r \in DOMAIN inflight : inflight[r].pc # "done"}

DefaultStepUnchanged ==
  UNCHANGED <<users, photos, nextUser, nextPortfolio, nextPhoto, clock, issued,
              consumed, removedUsers, bucket, nextFile>>

\* Portfolio.findById, the ownership check and portfolio.isDefault = true
SetDefaultRead(r, u, id) ==
  /\ r \notin DOMAIN inflight
  /\ Authenticated(u)
  /\ DefaultStepUnchanged
  /\ UNCHANGED portfolios
  /\ IF id \notin DOMAIN portfolios
       THEN /\ resp' = [op |-> "setDefault", status |-> 404, user |-> u, portfolio |-> id]
            /\ UNCHANGED inflight
     ELSE IF portfolios[id].user # u
       THEN /\ resp' = [op |-> "setDefault", status |-> 403, user |-> u, portfolio |-> id]
            /\ UNCHANGED inflight
     ELSE /\ inflight' =
               [q \in DOMAIN inflight |->
                  IF q \in InProgress THEN [inflight[q] EXCEPT !.overlapped = TRUE]
                                      ELSE inflight[q]]
               @@ (r :> [user |-> u, portfolio |-> id,
                         modified |-> ~portfolios[id].isDefault,
                         pc |-> "hook", overlapped |-> InProgress # {}])
          /\ UNCHANGED resp

\* the pre('save') hook: updateMany({ user, _id: { $ne } }, { isDefault: false })
\* when isDefault was modified
SetDefaultHook(r) ==
  /\ r \in DOMAIN inflight
  /\ inflight[r].pc = "hook"
  /\ DefaultStepUnchanged
  /\ UNCHANGED resp
  /\ portfolios' = IF inflight[r].modified
                     THEN ClearSiblingDefaults(portfolios, inflight[r].user,
                                               inflight[r].portfolio)
                     ELSE portfolios
  /\ inflight' = [inflight EXCEPT ![r].pc = "save"]

\* save() writes the modified path, { $set: { isDefault: true } }, and the
\* handler answers; save() of a document deleted meanwhile throws
SetDefaultSave(r) ==
  LET id == inflight[r].portfolio IN
  /\ r \in DOMAIN inflight
  /\ inflight[r].pc = "save"
  /\ DefaultStepUnchanged
  /\ inflight' = [inflight EXCEPT ![r].pc = "done"]
  /\ IF inflight[r].modified /\ id \notin DOMAIN portfolios
       THEN /\ \E st \in ErrorStatuses :
                 resp' = [op |-> "setDefault", status |-> st,
                          user |-> inflight[r].user, portfolio |-> id]
            /\ UNCHANGED portfolios
       ELSE /\ portfolios' = IF inflight[r].modified
                               THEN [portfolios EXCEPT ![id].isDefault = TRUE]
                               ELSE portfolios
            /\ resp' = [op |-> "setDefault", status |-> 200,
                        user |-> inflight[r].user, portfolio |-> id]

NextConcurrentDefault ==
  \/ \E n \in OwnerNames : nextUser <= MaxOwners /\ Register(n, OwnerEmail)
  \/ \E u \in DOMAIN users, id \in PortfolioIds : Duplicate(u, id)
  \/ \E r \in RequestIds, u \in DOMAIN users, id \in PortfolioIds : SetDefaultRead(r, u, id)
  \/ \E r \in RequestIds : SetDefaultHook(r)
  \/ \E r \in RequestIds : SetDefaultSave(r)

SpecConcurrentDefault == Init /\ [][NextConcurrentDefault]_vars

\* C18: when two set-default requests of one user for two different
\* portfolios have run concurrently and both have completed, exactly one of
\* the two portfolios has isDefault = true.
C18_ConcurrentSetDefaultOneWins ==
  \A r1 \in DOMAIN inflight, r2 \in DOMAIN inflight :
    ( /\ r1 # r2
      /\ inflight[r1].pc = "done" /\ inflight[r2].pc = "done"
      /\ inflight[r1].overlapped /\ inflight[r2].overlapped
      /\ inflight[r1].user = inflight[r2].user
      /\ inflight[r1].portfolio # inflight[r2].portfolio
      /\ {inflight[r1].portfolio, inflight[r2].portfolio} \subseteq DOMAIN portfolios )
    => Cardinality({p \in {inflight[r1].portfolio, inflight[r2].portfolio} :
                      portfolios[p].isDefault}) = 1

\* C19: the total a paginated listing returns is the number of documents
\* its page was selected from (here the page holds them all), and pages is
\* ceil(total / limit).
C19_TotalMatchesListing ==
  (resp.op \in {"listPhotos", "getUserPhotos"} /\ resp.status = 200)
    => /\ resp.total = Cardinality(resp.photos)
       /\ resp.pages = Ceil(resp.total, DefaultLimit)

\* C20: a role change requested by a super admin for an existing user is
\* refused with 'Cannot demote the last super admin' exactly when the target
\* is the only super_admin and the new role is not super_admin; every other
\* such request is answered 200 and the target has the new role.
C20_DemotionRule ==
  [][\A a \in DOMAIN users, id \in DOMAIN users, role \in Roles :
       ( /\ CanManageAdmins(a)
         /\ UpdateRole(a, id, role) )
       => LET lastDemoted == /\ users[id].role = "super_admin"
                             /\ SuperAdminCount = 1
                             /\ role # "super_admin"
          IN /\ lastDemoted => /\ resp'.status = 400
                               /\ resp'.message = "Cannot demote the last super admin"
                               /\ users' = users
             /\ ~lastDemoted => /\ resp'.status = 200
                                /\ users'[id].role = role]_vars

(***************************************************************************)
(* GET /api/admin/users (protect, requireAdmin, validatePagination).  The   *)
(* query parameters role and search are strings; an absent or empty one is  *)
(* falsy.  The accounts of the model carry no firstName and no lastName,    *)
(* so the search decides on username and email; a search string is matched  *)
(* as the regular expression of its own letters, without regard to case.    *)
(***************************************************************************)
RoleParams == {"absent"} \cup Roles

SearchParams == { << >>, <<"a","n">>, <<"X">> }

\* { $regex: search, $options: 'i' } for a search string made of letters
MatchesRegexIgnoringCase(s, search) ==
  \E i \in 0..(Len(s) - Len(search)) :
    \A j \in 1..Len(search) : LowerChar(s[i + j]) = LowerChar(search[j])

\* requireAdmin: the role is admin or super_admin, and the account is active
RequireAdmin(a) == users[a].role \in {"admin", "super_admin"} /\ users[a].isActive

\* query.role: the roles the filter lets through
RoleQuery(requesterRole, role) ==
  LET byRequester ==
        IF requesterRole = "admin" THEN {"user"}
        ELSE IF requesterRole = "super_admin" THEN {"user", "admin"}
        ELSE Roles
  IN IF role # "absent" /\ role # "super_admin" THEN {role} ELSE byRequester

\* query.$or
SearchQuery(u, search) ==
  search # << >> =>
    \/ MatchesRegexIgnoringCase(users[u].username, search)
    \/ MatchesRegexIgnoringCase(users[u].email, search)

\* User.find(query); the default limit of 20 holds every account of the model
FindUsers(requesterRole, role, search) ==
  {u \in DOMAIN users :
     users[u].role \in RoleQuery(requesterRole, role) /\ SearchQuery(u, search)}

ListUsers(a, role, search) ==
  /\ Authenticated(a)
  /\ resp' = IF ~RequireAdmin(a)
               THEN [op |-> "listUsers", status |-> 403, user |-> a]
               ELSE [op |-> "listUsers", status |-> 200, user |-> a,
                     requesterRole |-> users[a].role,
                     role |-> role,
                     listed |-> {[id |-> u, role |-> users[u].role] :
                                   u \in FindUsers(users[a].role, role, search)}]
  /\ UNCHANGED <<users, portfolios, photos, nextUser, nextPortfolio, nextPhoto,
                 clock, bucket, nextFile, inflight, issued, consumed, removedUsers>>

NextDirectory ==
  \/ \E n \in OwnerNames, e \in Emails, r \in {"admin", "super_admin"} :
       \E a \in DOMAIN users : CreateAdminUser(a, n, e, r)
  \/ \E a \in DOMAIN users, id \in DOMAIN users, r \in Roles : UpdateRole(a, id, r)
  \/ \E a \in DOMAIN users, role \in RoleParams, search \in SearchParams :
       ListUsers(a, role, search)

SpecDirectory == Init /\ [][NextDirectory]_vars

\* C21: a 200 answer of GET /api/admin/users lists no account with role
\* super_admin, and when the requester's role is admin it lists only
\* accounts with role user, whatever the role and search parameters are.
C21_ListHidesPrivileged ==
  (resp.op = "listUsers" /\ resp.status = 200) =>
    /\ \A r \in resp.listed : r.role # "super_admin"
    /\ resp.requesterRole = "admin" => \A r \in resp.listed : r.role = "user"

(***************************************************************************)
(* POST /api/admin/photos/:id/approve and /reject as requests: protect,     *)
(* canReviewPhotos, validateObjectId, the validation of the body (reject    *)
(* requires a reason), then the handler.                                    *)
(***************************************************************************)
ReviewRequest(a, id, approve, reasonGiven) ==
  IF a \in DOMAIN users /\ CanReviewPhotos(a) /\ ~approve /\ ~reasonGiven
    THEN /\ Authenticated(a)
         /\ PhotoUnchanged
         /\ UNCHANGED photos
         /\ resp' = [op |-> "rejectPhoto", status |-> 400, user |-> a, photo |-> id]
    ELSE ReviewPhoto(a, id, approve)

NextModeration ==
  \/ \E n \in OwnerNames : nextUser <= MaxOwners /\ Register(n, OwnerEmail)
  \/ \E u \in DOMAIN users, pid \in DOMAIN portfolios :
       /\ nextPhoto <= MaxOwnedPhotos
       /\ portfolios[pid].user = u
       /\ UploadPhoto(u, pid, "absent", TRUE)
  \/ \E a \in DOMAIN users, id \in PhotoIds, approve \in BOOLEAN, reasonGiven \in BOOLEAN :
       ReviewRequest(a, id, approve, reasonGiven)
  \/ \E u \in DOMAIN users, id \in DOMAIN photos, b \in [{"isPublic"} -> BOOLEAN] :
       UpdatePhoto(u, id, b)
  \/ Tick

SpecModeration == Init /\ [][NextModeration]_vars

\* C22: an approve or reject request of an admin with a valid body, on a
\* pending photo, sets approvalStatus to approved (rejected) and isPublic to
\* true (false) and records the reviewer and the time of the review; on a
\* photo that is approved or rejected already it is answered 400 and the
\* photo stays as it was.
C22_ReviewOnlyFromPending ==
  [][\A a \in DOMAIN users, id \in DOMAIN photos, approve \in BOOLEAN :
       (CanReviewPhotos(a) /\ ReviewRequest(a, id, approve, TRUE))
       => IF photos[id].approvalStatus = "pending"
            THEN /\ resp'.status = 200
                 /\ photos'[id].approvalStatus = (IF approve THEN "approved" ELSE "rejected")
                 /\ photos'[id].isPublic = approve
                 /\ photos'[id].reviewedBy = a
                 /\ photos'[id].reviewedAt = clock
            ELSE /\ resp'.status = 400
                 /\ photos' = photos]_vars

C22_Witness ==
  /\ resp.op \in {"approvePhoto", "rejectPhoto"}
  /\ resp.status = 400
  /\ resp.photo \in DOMAIN photos
  /\ photos[resp.photo].approvalStatus = "rejected"
  /\ photos[resp.photo].reviewedBy = resp.user
  /\ photos[resp.photo].reviewedAt < clock

(***************************************************************************)
(* Route dispatch.  server.js mounts one router per prefix; within a       *)
(* router Express hands a request to the first declared route whose method  *)
(* matches and whose path matches segment by segment, a parameter (:id)     *)
(* matching any one segment.  Each route below is written with the line of  *)
(* its declaration; a path is the tuple of its segments.                    *)
(***************************************************************************)
ParamSegments == {":id", ":username", ":slug", ":photoId", ":status"}

IsLiteralPath(path) == \A i \in 1..Len(path) : path[i] \notin ParamSegments

PathMatches(pattern, path) ==
  /\ Len(pattern) = Len(path)
  /\ \A i \in 1..Len(pattern) : pattern[i] \in ParamSegments \/ pattern[i] = path[i]

\* /api/auth (src/src/routes/auth.js)
AuthRoutes ==
  << [method |-> "POST", path |-> <<"register">>, line |-> 14],
     [method |-> "POST", path |-> <<"login">>, line |-> 90],
     [method |-> "POST", path |-> <<"logout">>, line |-> 170],
     [method |-> "POST", path |-> <<"refresh">>, line |-> 194],
     [method |-> "GET", path |-> <<"me">>, line |-> 252],
     [method |-> "PUT", path |-> <<"me">>, line |-> 284],
     [method |-> "PUT", path |-> <<"change-password">>, line |-> 349],
     [method |-> "DELETE", path |-> <<"me">>, line |-> 397] >>

\* /api/users (src/src/routes/users.js)
UserRoutes ==
  << [method |-> "GET", path |-> <<":username">>, line |-> 13],
     [method |-> "GET", path |-> <<":username", "portfolios">>, line |-> 78],
     [method |-> "GET", path |-> <<":username", "photos">>, line |-> 135],
     [method |-> "GET", path |-> <<"me", "profile">>, line |-> 224],
     [method |-> "PUT", path |-> <<"me", "profile">>, line |-> 244],
     [method |-> "GET", path |-> <<"me", "stats">>, line |-> 341],
     [method |-> "GET", path |-> <<"search">>, line |-> 415],
     [method |-> "POST", path |-> <<":username", "follow">>, line |-> 481],
     [method |-> "GET", path |-> <<":username", "followers">>, line |-> 551],
     [method |-> "GET", path |-> <<":username", "following">>, line |-> 604] >>

\* /api/portfolios (src/unnamed/part_002)
PortfolioRoutes ==
  << [method |-> "GET", path |-> <<>>, line |-> 19],
     [method |-> "GET", path |-> <<"debug", "test">>, line |-> 99],
     [method |-> "GET", path |-> <<"my">>, line |-> 146],
     [method |-> "GET", path |-> <<"default">>, line |-> 219],
     [method |-> "GET", path |-> <<":slug">>, line |-> 275],
     [method |-> "POST", path |-> <<>>, line |-> 324],
     [method |-> "PUT", path |-> <<":id">>, line |-> 377],
     [method |-> "DELETE", path |-> <<":id">>, line |-> 422],
     [method |-> "PUT", path |-> <<":id", "default">>, line |-> 457],
     [method |-> "GET", path |-> <<":id", "analytics">>, line |-> 497],
     [method |-> "POST", path |-> <<":id", "duplicate">>, line |-> 550] >>

\* /api/photos (src/unnamed/part_000)
PhotoRoutes ==
  << [method |-> "GET", path |-> <<>>, line |-> 19],
     [method |-> "GET", path |-> <<":photoId", "presigned-url">>, line |-> 103],
     [method |-> "GET", path |-> <<"debug", "test-url", ":photoId">>, line |-> 162],
     [method |-> "GET", path |-> <<"debug", "all">>, line |-> 204],
     [method |-> "GET", path |-> <<"my">>, line |-> 243],
     [method |-> "GET", path |-> <<"featured">>, line |-> 293],
     [method |-> "GET", path |-> <<"trending">>, line |-> 313],
     [method |-> "GET", path |-> <<":id">>, line |-> 333],
     [method |-> "PUT", path |-> <<":id">>, line |-> 375],
     [method |-> "DELETE", path |-> <<":id">>, line |-> 422],
     [method |-> "POST", path |-> <<":id", "like">>, line |-> 457],
     [method |-> "POST", path |-> <<":id", "download">>, line |-> 497],
     [method |-> "POST", path |-> <<":id", "share">>, line |-> 545],
     [method |-> "GET", path |-> <<":id", "analytics">>, line |-> 591],
     [method |-> "PUT", path |-> <<"reorder">>, line |-> 636] >>

\* /api/upload (src/src/routes/upload.js)
UploadRoutes ==
  << [method |-> "POST", path |-> <<"photo">>, line |-> 113],
     [method |-> "POST", path |-> <<"photos">>, line |-> 236],
     [method |-> "POST", path |-> <<"avatar">>, line |-> 376],
     [method |-> "DELETE", path |-> <<"photo", ":id">>, line |-> 428],
     [method |-> "GET", path |-> <<"limits">>, line |-> 473] >>

\* /api/admin (src/unnamed/part_003)
AdminRoutes ==
  << [method |-> "GET", path |-> <<"photos", "pending">>, line |-> 15],
     [method |-> "GET", path |-> <<"photos", "recent-submissions">>, line |-> 48],
     [method |-> "GET", path |-> <<"photos", "status", ":status">>, line |-> 68],
     [method |-> "GET", path |-> <<"photos", ":id">>, line |-> 109],
     [method |-> "POST", path |-> <<"photos", ":id", "approve">>, line |-> 139],
     [method |-> "POST", path |-> <<"photos", ":id", "reject">>, line |-> 185],
     [method |-> "GET", path |-> <<"photos", "stats">>, line |-> 232],
     [method |-> "GET", path |-> <<"users">>, line |-> 270],
     [method |-> "GET", path |-> <<"photos", "approved">>, line |-> 370],
     [method |-> "GET", path |-> <<"photos", "rejected">>, line |-> 403],
     [method |-> "DELETE", path |-> <<"users", ":id">>, line |-> 436],
     [method |-> "DELETE", path |-> <<"photos", ":id">>, line |-> 467],
     [method |-> "POST", path |-> <<"users">>, line |-> 493],
     [method |-> "PUT", path |-> <<"users", ":id", "role">>, line |-> 552],
     [method |-> "PUT", path |-> <<"users", ":id", "status">>, line |-> 599],
     [method |-> "GET", path |-> <<"dashboard">>, line |-> 649],
     [method |-> "GET", path |-> <<"stats", "photos">>, line |-> 713],
     [method |-> "GET", path |-> <<"stats", "users">>, line |-> 746],
     [method |-> "POST", path |-> <<"fix-stats">>, line |-> 768],
     [method |-> "GET", path |-> <<"photos", ":id", "image">>, line |-> 829] >>

Routers ==
  [ auth |-> AuthRoutes, users |-> UserRoutes, portfolios |-> PortfolioRoutes,
    photos |-> PhotoRoutes, upload |-> UploadRoutes, admin |-> AdminRoutes ]

\* the index of the route that handles the request, 0 when none matches
Dispatch(routes, method, path) ==
  LET matching == {k \in 1..Len(routes) :
                     routes[k].method = method /\ PathMatches(routes[k].path, path)}
  IN IF matching = {} THEN 0
     ELSE CHOOSE k \in matching : \A j \in matching : k <= j

\* the values a client puts in the place of a parameter
ParamValues ==
  {"ann", "search", "reorder", "stats", "approved", "rejected", "507f1f77bcf86cd799439011"}

\* the path of a request meant for a route
Fill(path, v) == [i \in 1..Len(path) |-> IF path[i] \in ParamSegments THEN v ELSE path[i]]

\* a client sends the request meant for the k-th route of a router
SendRequest(name, k, v) ==
  LET route == Routers[name][k]
      path == Fill(route.path, v)
      h == Dispatch(Routers[name], route.method, path)
  IN /\ resp' = [op |-> "dispatch", status |-> 0, router |-> name,
                  method |-> route.method, path |-> path,
                  intended |-> route.line,
                  literal |-> IsLiteralPath(route.path),
                  handler |-> IF h = 0 THEN 0 ELSE Routers[name][h].line]
     /\ UNCHANGED <<users, portfolios, photos, nextUser, nextPortfolio, nextPhoto,
                    clock, bucket, nextFile, inflight, issued, consumed, removedUsers>>

NextRouting ==
  \E name \in DOMAIN Routers, v \in ParamValues :
    \E k \in 1..Len(Routers[name]) : SendRequest(name, k, v)

SpecRouting == Init /\ [][NextRouting]_vars

\* C23: a request for the literal path of a registered route is handled by
\* that route's own handler, not by a parameterised route declared before
\* it.
C23_LiteralRoutesReachable ==
  (resp.op = "dispatch" /\ resp.literal) => resp.handler = resp.intended

\* C24: GET /api/photos/:id for a photo that is not public, and
\* GET /api/portfolios/:slug for a portfolio that is not public, answer the
\* owner with 200 and every other requester, the unauthenticated one
\* included, with 403.
C24_OwnerAccessGranted ==
  [][/\ \A v \in Viewers, id \in DOMAIN photos :
          (~photos[id].isPublic /\ GetPhoto(v, id))
          => resp'.status = IF v = photos[id].user THEN 200 ELSE 403
     /\ \A v \in Viewers, p \in DOMAIN portfolios :
          (~portfolios[p].isPublic /\ GetPortfolioBySlug(v, portfolios[p].slug))
          => resp'.status = IF v = portfolios[p].user THEN 200 ELSE 403]_vars

\* C25: a photo becomes approved (a new photo is approved, or an existing
\* one changes to approved) only in a successful approve request of an
\* admin; no upload, no PUT /api/photos/:id and no portfolio duplicate
\* produces an approved photo.
C25_ApprovedOnlyByReview ==
  [][\A f \in DOMAIN photos' :
       ( /\ photos'[f].approvalStatus = "approved"
         /\ f \in DOMAIN photos => photos[f].approvalStatus # "approved" )
       => /\ resp'.op = "approvePhoto"
          /\ resp'.status = 200
          /\ CanReviewPhotos(resp'.user)]_vars

\* C26: a POST /api/auth/register that does not end in 201 leaves no user
\* account behind: the User collection is as it was before the request.
C26_RegisterAllOrNothing ==
  [][\A n \in Usernames, e \in Emails :
       (Register(n, e) /\ resp'.status # 201) => users' = users]_vars

(***************************************************************************)
(* POST /api/upload/download-url (protect).  The body names a storage key;  *)
(* the handler signs a download URL for it.  The keys a client sends are    *)
(* the publicId of a photo, the key of an object in the bucket, or none.    *)
(***************************************************************************)
NoKey == [file |-> -1, thumb |-> FALSE]

RequestedKeys == {photos[f].publicId : f \in DOMAIN photos} \cup bucket \cup {NoKey}

\* generatePresignedDownloadUrl: getSignedUrl of a GetObjectCommand for the key
GeneratePresignedDownloadUrl(key) == [signedFor |-> key]

DownloadUrl(u, key, signOk) ==
  /\ Authenticated(u)
  /\ resp' = IF key = NoKey
               THEN [op |-> "downloadUrl", status |-> 400, user |-> u, key |-> key]
             ELSE IF ~signOk
               THEN [op |-> "downloadUrl", status |-> 500, user |-> u, key |-> key]
             ELSE [op |-> "downloadUrl", status |-> 200, user |-> u, key |-> key,
                   downloadUrl |-> GeneratePresignedDownloadUrl(key)]
  /\ UNCHANGED <<users, portfolios, photos, nextUser, nextPortfolio, nextPhoto,
                 clock, bucket, nextFile, inflight, issued, consumed, removedUsers>>

NextDownload ==
  \/ \E n \in OwnerNames : nextUser <= MaxOwners /\ Register(n, OwnerEmail)
  \/ \E u \in DOMAIN users : GetDefault(u)
  \/ \E u \in DOMAIN users, pid \in DOMAIN portfolios, f \in IsPublicFields :
       nextPhoto <= MaxPhotos /\ UploadPhoto(u, pid, f, TRUE)
  \/ \E u \in DOMAIN users, pid \in DOMAIN portfolios :
       UploadPhotoR2(u, pid, "absent", "thumbnail")
  \/ \E u \in DOMAIN users, key \in RequestedKeys, signOk \in BOOLEAN :
       DownloadUrl(u, key, signOk)

SpecDownload == Init /\ [][NextDownload]_vars

\* C27: POST /api/upload/download-url issues a URL only for a key that is
\* the publicId of a photo, and only when every photo with that key is
\* owned by the requester or public: never for the key of another user's
\* private photo.
C27_DownloadUrlAuthorized ==
  (resp.op = "downloadUrl" /\ resp.status = 200) =>
    /\ \E f \in DOMAIN photos : photos[f].publicId = resp.key
    /\ \A f \in DOMAIN photos :
         photos[f].publicId = resp.key =>
           (photos[f].user = resp.user \/ photos[f].isPublic)

(***************************************************************************)
(* Deactivated accounts: PUT /api/admin/users/:id/status beside login,      *)
(* refresh and a route behind protect.                                      *)
(***************************************************************************)
NextDeactivation ==
  \/ \E n \in OwnerNames : nextUser <= MaxOwners /\ Register(n, OwnerEmail)
  \/ \E i \in OwnerNames, ok \in BOOLEAN : Login(i, ok)
  \/ \E rt \in issued : Refresh(rt)
  \/ \E t \in AccessTokensIssued : GetMe([bearer |-> t, cookie |-> NoToken], FALSE)
  \/ \E a \in DOMAIN users, id \in DOMAIN users, b \in BOOLEAN : UpdateStatus(a, id, b)
  \/ Tick

SpecDeactivation == Init /\ [][NextDeactivation]_vars

\* C28: while a user's isActive is false, a login with their identifier is
\* answered 401, a request behind protect with one of their access tokens
\* is answered 401, and a refresh with one of their stored refresh tokens is
\* refused; none of the three hands out a new token.
C28_DeactivatedHasNoCredentials ==
  [][/\ \A u \in DOMAIN users, ok \in BOOLEAN :
          (~users[u].isActive /\ Login(users[u].username, ok))
          => (resp'.status = 401 /\ issued' = issued)
     /\ \A t \in AccessTokensIssued :
          ( /\ t.id \in DOMAIN users
            /\ ~users[t.id].isActive
            /\ GetMe([bearer |-> t, cookie |-> NoToken], FALSE) )
          => resp'.status = 401
     /\ \A rt \in issued :
          ( /\ rt.id \in DOMAIN users
            /\ ~users[rt.id].isActive
            /\ TokenExists(users[rt.id].refreshTokens, rt)
            /\ Refresh(rt) )
          => (resp'.status = 401 /\ issued' = issued)]_vars

(***************************************************************************)
(* POST /api/auth/refresh, step by step.  The handler awaits three times:   *)
(* User.findById, the save() inside removeRefreshToken, and the save()      *)
(* after the second push.  inflight[r] is the request r between its steps:  *)
(* the presented token, the copy of the user document it read, the token    *)
(* it signed, its position, its outcome, and the requests that were in      *)
(* progress when it arrived.                                                *)
(*                                                                         *)
(* removeRefreshToken assigns a new array to refreshTokens; Mongoose writes *)
(* an assigned array as { $set: array, $inc: { __v: 1 } } under the         *)
(* condition { _id, __v: the version read }, and save() throws a            *)
(* VersionError when no document meets the condition.  The push that        *)
(* follows is written as { $push, $inc: { __v: 1 } } under { _id }.         *)
(***************************************************************************)
\* the condition { __v: this.__v } of the save() in removeRefreshToken
VersionMatches(stored, copy) == stored.version = copy.version

RefreshStepUnchanged ==
  UNCHANGED <<portfolios, photos, nextUser, nextPortfolio, nextPhoto, clock,
              removedUsers, bucket, nextFile>>

\* jwt.verify, User.findById, the token-exists check on the copy, the two
\* generate calls and the filter of removeRefreshToken, up to its save()
RefreshFind(r, rt) ==
  LET u == rt.id
      new == SignRefreshToken(u, clock)
  IN
  /\ r \notin DOMAIN inflight
  /\ RefreshStepUnchanged
  /\ UNCHANGED <<users, issued, consumed>>
  /\ IF u \notin DOMAIN users \/ ~TokenExists(users[u].refreshTokens, rt)
       THEN /\ inflight' = inflight @@
                 (r :> [presented |-> rt, new |-> new, copy |-> << >>,
                        pc |-> "done", status |-> 401, concurrent |-> InProgress])
            /\ resp' = [op |-> "refresh", status |-> 401, presented |-> rt,
                        reuse |-> rt \in consumed, new |-> rt]
       ELSE /\ inflight' = inflight @@
                    (r :> [presented |-> rt, new |-> new,
                           copy |-> [users[u] EXCEPT
                                       !.refreshTokens =
                                          RemoveRefreshToken(PushToken(@, new), rt)],
                           pc |-> "remove", status |-> 0,
                           concurrent |-> InProgress])
            /\ UNCHANGED resp

\* the save() of removeRefreshToken reaches the database
RefreshRemove(r) ==
  LET u == inflight[r].presented.id
      copy == inflight[r].copy
  IN
  /\ r \in DOMAIN inflight
  /\ inflight[r].pc = "remove"
  /\ RefreshStepUnchanged
  /\ UNCHANGED <<issued, consumed>>
  /\ IF u \in DOMAIN users /\ VersionMatches(users[u], copy)
       THEN /\ users' = [users EXCEPT ![u].refreshTokens = copy.refreshTokens,
                                      ![u].version = @ + 1]
            /\ inflight' = [inflight EXCEPT ![r].pc = "save"]
            /\ UNCHANGED resp
       ELSE \* VersionError: next(error)
            /\ \E st \in ErrorStatuses :
                 /\ inflight' = [inflight EXCEPT ![r].pc = "done", ![r].status = st]
                 /\ resp' = [op |-> "refresh", status |-> st,
                             presented |-> inflight[r].presented,
                             reuse |-> inflight[r].presented \in consumed,
                             new |-> inflight[r].presented]
            /\ UNCHANGED users

\* user.refreshTokens.push({ token: newRefreshToken }); save(); the answer
RefreshSave(r) ==
  LET u == inflight[r].presented.id
      rt == inflight[r].presented
      new == inflight[r].new
  IN
  /\ r \in DOMAIN inflight
  /\ inflight[r].pc = "save"
  /\ u \in DOMAIN users
  /\ RefreshStepUnchanged
  /\ users' = [users EXCEPT ![u].refreshTokens = PushToken(@, new),
                            ![u].version = @ + 1]
  /\ issued' = issued \cup {new}
  /\ consumed' = consumed \cup {rt}
  /\ inflight' = [inflight EXCEPT ![r].pc = "done", ![r].status = 200]
  /\ resp' = [op |-> "refresh", status |-> 200, presented |-> rt,
              reuse |-> rt \in consumed, new |-> new]

NextConcurrentRefresh ==
  \/ \E n \in OwnerNames : nextUser <= MaxOwners /\ Register(n, OwnerEmail)
  \/ \E i \in OwnerNames : Login(i, TRUE)
  \/ \E r \in RequestIds, rt \in issued : RefreshFind(r, rt)
  \/ \E r \in RequestIds : RefreshRemove(r)
  \/ \E r \in RequestIds : RefreshSave(r)
  \/ Tick

SpecConcurrentRefresh == Init /\ [][NextConcurrentRefresh]_vars

\* C29: of two refresh requests that present the same refresh token and run
\* concurrently (one arrives while the other is in progress), however their
\* steps interleave, at most one is answered 200 with a new token pair.
C29_ConcurrentRefreshOneWins ==
  \A r1 \in DOMAIN inflight, r2 \in DOMAIN inflight :
    ( /\ r1 \in inflight[r2].concurrent
      /\ inflight[r1].presented = inflight[r2].presented )
    => ~(inflight[r1].status = 200 /\ inflight[r2].status = 200)

====
